---- MODULE Spec2Model ----
(***************************************************************************)
(* TransWacom: a model of the peer runtime.                                *)
(*                                                                         *)
(*   SpecFraming  the newline-delimited JSON codec of transnetwork.py      *)
(*                (NetworkProtocol.pack_message / unpack_messages)         *)
(*   SpecCapture  the batching loop of host_input.py                       *)
(*                (InputCapture._capture_loop)                             *)
(*   SpecServer   the inbound reader of transnetwork.py and the            *)
(*                authorisation callback of tray_app_unified.py            *)
(*   Spec         the outbound side of tray_app_unified.py: connection     *)
(*                threads, captures, disconnect, cleanup and quit          *)
(*                                                                         *)
(* Every specification uses its own group of variables and leaves the      *)
(* other groups at their initial values.                                   *)
(***************************************************************************)
EXTENDS Integers, Sequences, FiniteSets, TLC

VARIABLES
    \* ---- framing (NetworkProtocol) ----
    sent,        \* the list M of messages that was packed
    wire,        \* bytes of encode(M) not yet handed to unpack_messages
    buffer,      \* NetworkProtocol.buffer
    decoded,     \* concatenation of the lists unpack_messages has returned
    calls,       \* number of unpack_messages calls made so far
    readerPc,    \* the reader of the stream: "reading" | "closed"
    \* ---- capture loop (InputCapture._capture_loop), one per device ----
    capPc,       \* per capture: "reading" | "done"
    capRunning,  \* per capture: InputCapture.running
    capBatch,    \* per capture: event_batch
    capLast,     \* per capture: last_batch_time (ms)
    capNow,      \* time.time() (ms)
    delivered,   \* the latest call of the sink: event_callback(device_type, batch)
    \* ---- trust registry (ConfigManager) and the authorisation decision ----
    trusted_hosts,        \* config['consumer']['trusted_hosts']
    auto_accept_trusted,  \* config['consumer']['auto_accept_trusted']
    lastAuth,    \* the latest handshake auth_callback has decided, and how
    \* ---- inbound side: create_consumer_server.handle_client, one per socket ----
    inPc,        \* per connection: "recv" | "loop" | "closed"
    inNet,       \* per connection: messages the peer has sent, not yet received
    peerSent,    \* per connection: number of messages the peer has sent
    peerClosed,  \* per connection: the peer has closed its end
    inMsgs,      \* per connection: rest of the list the for loop iterates
    handshake_done,       \* per connection: the local handshake_done
    inHostName,  \* per connection: the local host_name
    inSock,      \* per connection: "open" | "closed"
    authReply,   \* per connection: the latest auth_response sent
    userAnswer,  \* per connection: how auth_callback came to its decision
    incoming_sockets,     \* TransNetwork.incoming_sockets
    incoming_connections, \* TransWacomTrayApp.incoming_connections
    virtual_devices,      \* DeviceEmulationManager.virtual_devices (its keys)
    uinputOk,    \* whether the process may create virtual devices
    injected,    \* the calls of event_callback made by the readers, in order
    authSent,    \* per connection: the auth_response sent on it, NoReply before
    hsLacks,     \* per connection: the fields the latest handshake handled lacked
    gotDisconnect,        \* per connection: a disconnect message was handled
    inError,     \* per connection: the exception that ended its reader, "none" else
    revoked,     \* the sockets registered under a host when the user disconnected it
    \* ---- outbound side: TransWacomTrayApp as host, one thread per connect ----
    phase,       \* "running" | "cleaned" (a cleanup has run) | "exited"
    pc,          \* per connect thread: position in _perform_connection
    tDev,        \* per connect thread: device.path
    tCons,       \* per connect thread: consumer.unique_id
    resp,        \* per connect thread: what its own socket received from the consumer
    sock,        \* per connect thread: "none" | "open" | "closed" | "leaked"
    linkUp,      \* per connect thread: the consumer end still reads
    disconnects, \* per connect thread: disconnect messages attempted on its socket
    streamed,    \* per connect thread: an event batch was sent on its socket
    stopReq,     \* per connect thread: the user asked to stop its session
    lossSeen,    \* per connect thread: a failed send told the callback the link is lost
    protoBuffer, \* TransNetwork.protocol.buffer, shared by all outbound handshakes
    active_connections,   \* TransNetwork.active_connections (its keys)
    outgoing_connections, \* TransWacomTrayApp.outgoing_connections: uid -> connection
    active_captures,      \* HostInputManager.active_captures: path -> capture
    capState,    \* per capture (named by its thread): "none" | "running" | "stopped"
    origMode,    \* per capture: WacomController.original_mode
    devMode,     \* the tablet's mode
    devEnabled,  \* the tablet's local delivery
    toolsOk,     \* whether xsetwacom/xinput find the tablet
    relative_mode,        \* config['host']['relative_mode']
    timers,      \* "armed" | "cancelled"
    server_socket,        \* "listening" | "closed"
    mdns,        \* "published" | "unpublished"
    discovery,   \* "browsing" | "stopped"
    cleanups,    \* number of _cleanup_resources calls
    lastCleanup, \* what the latest _cleanup_resources call did
    \* ---- discovery (on_consumer_discovered, check_stale_consumers, menu) ----
    dNow,        \* time.time() (s)
    ownAddress,  \* the address _get_local_ip chose for the published service
    discovered_consumers,  \* TransWacomTrayApp.discovered_consumers
    cli_discovered,        \* TransWacomUnified.discovered_consumers
    staleDue,    \* when _stale_check_timer fires next
    menu,        \* consumers of the latest menu built, with their age then
    \* ---- device emulation (DeviceEmulationManager.process_events) ----
    emuSent,     \* per inbound session: the event batches its host sent so far
    emuCur,      \* per inbound session: events of the batch at hand still to visit
    emuPc,       \* per inbound session: "recv" | "events" | "sync"
    devLog,      \* what the wacom UInput device was asked to do, in order
    \* ---- one InputCapture with its WacomController (start, stop) ----
    wcPc,        \* "new" | "failed" | "running" | "aborted" | "stopped"
    wcIsWacom,   \* InputCapture._is_wacom_device()
    tabMode,     \* the tablet's mode: "Absolute" | "Relative"
    tabEnabled,  \* the tablet's local delivery
    priorMode,   \* the tablet's mode before start
    priorEnabled,         \* the tablet's local delivery before start
    argRelative, \* the relative_mode argument of start
    argDisable,  \* the disable_local argument of start
    device_id,   \* WacomController.device_id: "None" | "id"
    original_mode,        \* WacomController.original_mode: "None" | "Absolute"
    was_enabled, \* WacomController.was_enabled
    startLog,    \* the controller commands start ran, with their results
    stopLog,     \* the commands and the close the latest stop ran
    wcHandle,    \* InputCapture.device: "none" | "open" | "closed"
    inActive,    \* device_path in HostInputManager.active_captures
    lastStop,    \* the latest stop_capture call: who called, what it reached
    \* ---- creation of the virtual devices (process_events, create_virtual_device) ----
    vdPc,        \* per session thread: "idle" | "check" | "create" | "construct" |
                 \*   "register" | "lookup" | "write"
    vdType,      \* per session thread: device_type of the batch at hand
    vdNew,       \* per session thread: the device it constructed, 0 when none
    vdDev,       \* per session thread: the device it looked up, 0 when none
    vdCount,     \* per session thread: batches it has received
    vdTable,     \* DeviceEmulationManager.virtual_devices: type -> device, 0 when absent
    uinputs,     \* the UInput devices that exist, each with its type
    vdWritten,   \* the devices batches were written to
    vdNextId,    \* number of the next UInput device
    \* ---- registration of the inbound sockets (handle_client), statement by statement ----
    rgPc,        \* per reader thread: the statement of handle_client it is at
    rgRef,       \* per reader thread: the list its subscript returned, 0 when none
    rgSock,      \* per reader thread: its socket, "open" | "closed"
    rgDict,      \* TransNetwork.incoming_sockets[h]: a list, 0 when h is not a key
    rgLists,     \* the list objects made so far, each with its sockets
    rgNextList,  \* number of the next list object
    \* ---- the periodic timers of _start_auto_updates and their cancellation ----
    tmState,     \* per timer: "waiting" | "running" (its callback runs) | "cancelled"
    tmRuns,      \* per timer: how often its callback has run
    tmCleanPc,   \* _cleanup_resources: "idle" | "cancel_device" | "cancel_stale" | "done"
    \* ---- HostTrayApp (tray_app.py): one outbound session and its loss handling ----
    rcPc,        \* the connect thread: "idle" | "connected" | "captured"
    rcSocket,    \* HostTrayApp.active_socket: "none" | "open" | "closed"
    rcActive,    \* HostTrayApp.active_connection
    rcCapture,   \* the capture: "none" | "running" | "halted" (stop broke off)
    rcLink,      \* the consumer end still reads
    rcMonitor,   \* a _connection_monitor_timer is pending
    rcRecovering,         \* HostTrayApp._recovering
    rcResetPending,       \* the Timer(5.0, reset_recovery) is pending
    rcLast,      \* how the latest loss of the session was detected, "none" before
    rcSessions   \* connections established so far

framingVars == <<sent, wire, buffer, decoded, calls, readerPc>>

captureVars == <<capPc, capRunning, capBatch, capLast, capNow, delivered>>

trustVars == <<trusted_hosts, auto_accept_trusted, lastAuth>>

serverVars == <<inPc, inNet, peerSent, peerClosed, inMsgs, handshake_done, inHostName,
                inSock, authReply, userAnswer, incoming_sockets, incoming_connections,
                virtual_devices, uinputOk, injected, authSent, hsLacks, gotDisconnect,
                inError, revoked>>

hostVars == <<phase, pc, tDev, tCons, resp, sock, linkUp, disconnects, streamed, stopReq,
              lossSeen,
              protoBuffer, active_connections, outgoing_connections, active_captures,
              capState, origMode, devMode, devEnabled, toolsOk, relative_mode, timers,
              server_socket, mdns, discovery, cleanups, lastCleanup>>

discVars == <<dNow, ownAddress, discovered_consumers, cli_discovered, staleDue, menu>>

emuVars == <<emuSent, emuCur, emuPc, devLog>>

\* The groups of the smaller specifications.
wcVars == <<wcPc, wcIsWacom, tabMode, tabEnabled, priorMode, priorEnabled, argRelative,
            argDisable, device_id, original_mode, was_enabled, startLog, stopLog,
            wcHandle, inActive, lastStop>>

vdVars == <<vdPc, vdType, vdNew, vdDev, vdCount, vdTable, uinputs, vdWritten, vdNextId>>

regVars == <<rgPc, rgRef, rgSock, rgDict, rgLists, rgNextList>>

tmVars == <<tmState, tmRuns, tmCleanPc>>

recVars == <<rcPc, rcSocket, rcActive, rcCapture, rcLink, rcMonitor, rcRecovering,
             rcResetPending, rcLast, rcSessions>>

lateVars == <<regVars, tmVars, recVars>>

restVars == <<discVars, emuVars, wcVars, vdVars, lateVars>>

vars == <<framingVars, captureVars, trustVars, serverVars, hostVars, restVars>>

\* What the actions of one group leave alone.
notFraming == <<captureVars, trustVars, serverVars, hostVars, restVars>>
notCapture == <<framingVars, trustVars, serverVars, hostVars, restVars>>
notTrust == <<framingVars, captureVars, serverVars, hostVars, restVars>>
notServer == <<framingVars, captureVars, hostVars, restVars>>
notHost == <<framingVars, captureVars, trustVars, restVars>>
notDisc == <<framingVars, captureVars, trustVars, serverVars, hostVars, emuVars, wcVars,
             vdVars, lateVars>>
notEmu == <<framingVars, captureVars, trustVars, serverVars, hostVars, discVars, wcVars,
            vdVars, lateVars>>
notWc == <<framingVars, captureVars, trustVars, serverVars, hostVars, discVars, emuVars,
           vdVars, lateVars>>
notVd == <<framingVars, captureVars, trustVars, serverVars, hostVars, discVars, emuVars,
           wcVars, lateVars>>
earlyVars == <<framingVars, captureVars, trustVars, serverVars, hostVars, discVars, emuVars,
               wcVars, vdVars>>
notReg == <<earlyVars, tmVars, recVars>>
notTm == <<earlyVars, regVars, recVars>>
notRec == <<earlyVars, regVars, tmVars>>

(***************************************************************************)
(* Bounds                                                                  *)
(***************************************************************************)
MaxMsgLen == 2      \* characters in the string payload of one message
MaxMsgs == 2        \* messages in one packed list
MaxBatchLen == 2    \* events the device delivers before a flush is forced
MaxTime == 20       \* last clock value (ms)
TickMs == 5         \* clock step (ms)
MaxPeerMsgs == 2    \* messages one peer sends on one inbound connection
MaxCleanups == 2    \* _cleanup_resources calls before the process exits
MaxDiscTime == 120  \* last clock value of the discovery specification (s)
TickS == 15         \* its clock step (s)
MaxLines == 3       \* lines a peer sends on the stream with malformed lines
MaxVdBatches == 2   \* batches one session delivers in the device creation specification
MaxEmuOps == 6      \* device operations the received batches can ask for, all sessions together
MaxEmuBatchLen == 2 \* events of one received batch
MaxTimerRuns == 2   \* runs of one periodic timer callback
MaxSessions == 3    \* outbound sessions HostTrayApp establishes one after the other

(***************************************************************************)
(* Universes, and the value of each group of variables while the           *)
(* specification at hand does not use it                                   *)
(***************************************************************************)
CapPaths == {"p1", "p2"}

NoDelivery == [cap |-> "none", device_type |-> "none", events |-> <<>>]

CaptureIdle ==
    /\ capPc = [p \in CapPaths |-> "done"]
    /\ capRunning = [p \in CapPaths |-> FALSE]
    /\ capBatch = [p \in CapPaths |-> <<>>]
    /\ capLast = [p \in CapPaths |-> 0]
    /\ capNow = 0
    /\ delivered = NoDelivery

\* Host names and host ids peers present in a handshake.  "None" is the
\* value of a key that is null in the handshake or absent from a registry
\* entry (dict.get returns None).
Names == {"H1", "H2"}
Ids == {"id1", "id2", "None"}

\* trusted.get(host_name) when the registry has no entry for the name.
NoEntry == [present |-> FALSE, host_id |-> "None", auto_accept |-> FALSE]

Entries == {NoEntry} \cup [present : {TRUE}, host_id : Ids, auto_accept : BOOLEAN]

NoAuth == [host_name |-> "none", host_id |-> "None", silent |-> FALSE, entry |-> NoEntry]

TrustIdle ==
    /\ trusted_hosts = [n \in Names |-> NoEntry]
    /\ auto_accept_trusted = TRUE
    /\ lastAuth = NoAuth

\* Inbound connections the server has accepted.
Conns == {"i1", "i2"}

\* No auth_response sent yet.
NoReply == [accepted |-> FALSE, consumer_name |-> "none", consumer_id |-> "none"]

ServerIdle ==
    /\ inPc = [i \in Conns |-> "closed"]
    /\ inNet = [i \in Conns |-> <<>>]
    /\ peerSent = [i \in Conns |-> 0]
    /\ peerClosed = [i \in Conns |-> FALSE]
    /\ inMsgs = [i \in Conns |-> <<>>]
    /\ handshake_done = [i \in Conns |-> FALSE]
    /\ inHostName = [i \in Conns |-> "None"]
    /\ inSock = [i \in Conns |-> "closed"]
    /\ authReply = [i \in Conns |-> "none"]
    /\ userAnswer = [i \in Conns |-> "none"]
    /\ incoming_sockets = [n \in Names |-> <<>>]
    /\ incoming_connections = <<>>
    /\ virtual_devices = {}
    /\ uinputOk = TRUE
    /\ injected = <<>>
    /\ authSent = [i \in Conns |-> NoReply]
    /\ hsLacks = [i \in Conns |-> {}]
    /\ gotDisconnect = [i \in Conns |-> FALSE]
    /\ inError = [i \in Conns |-> "none"]
    /\ revoked = {}

\* Threads started by _connect_device_to_consumer, and the consumers they
\* connect to (DiscoveredConsumer.unique_id).
Threads == {"t1", "t2"}
Consumers == {"c1", "c2"}

NoCleanup == [log |-> <<>>, cmds |-> 0, disc |-> 0]

\* The application right after TransWacomTrayApp.__init__.
HostIdle ==
    /\ phase = "running"
    /\ pc = [t \in Threads |-> "idle"]
    /\ tDev = [t \in Threads |-> "none"]
    /\ tCons = [t \in Threads |-> "none"]
    /\ resp = [t \in Threads |-> "none"]
    /\ sock = [t \in Threads |-> "none"]
    /\ linkUp = [t \in Threads |-> TRUE]
    /\ disconnects = [t \in Threads |-> 0]
    /\ streamed = [t \in Threads |-> FALSE]
    /\ stopReq = [t \in Threads |-> FALSE]
    /\ lossSeen = [t \in Threads |-> FALSE]
    /\ protoBuffer = <<>>
    /\ active_connections = {}
    /\ outgoing_connections = [c \in Consumers |-> "none"]
    /\ active_captures = [p \in CapPaths |-> "none"]
    /\ capState = [t \in Threads |-> "none"]
    /\ origMode = [t \in Threads |-> "None"]
    /\ devMode = "Absolute"
    /\ devEnabled = TRUE
    /\ toolsOk = TRUE
    /\ relative_mode = TRUE
    /\ timers = "armed"
    /\ server_socket = "listening"
    /\ mdns = "published"
    /\ discovery = "browsing"
    /\ cleanups = 0
    /\ lastCleanup = NoCleanup

FramingIdle ==
    /\ sent = <<>>
    /\ wire = <<>>
    /\ buffer = <<>>
    /\ decoded = <<>>
    /\ calls = 0
    /\ readerPc = "reading"

\* The services a browse event can report: DiscoveredConsumer.unique_id is
\* address:port.  The peer itself advertises MyName on MyPort.
Addresses == {"127.0.0.1", "192.168.0.2", "192.168.0.3"}
Ports == {3333, 3334}
MdnsNames == {"me", "other"}
MyName == "me"
MyPort == 3333
UniqueIds == Addresses \X Ports

NoConsumer == [present |-> FALSE, name |-> "none", port |-> 0, timestamp |-> 0]

DiscIdle ==
    /\ dNow = 0
    /\ ownAddress = "127.0.0.1"
    /\ discovered_consumers = [k \in UniqueIds |-> NoConsumer]
    /\ cli_discovered = [k \in UniqueIds |-> NoConsumer]
    /\ staleDue = 0
    /\ menu = {}

\* Inbound sessions sharing the virtual tablet.
Sessions == {"s1", "s2"}

EmuIdle ==
    /\ emuSent = [s \in Sessions |-> <<>>]
    /\ emuCur = [s \in Sessions |-> <<>>]
    /\ emuPc = [s \in Sessions |-> "recv"]
    /\ devLog = <<>>

NoStop == [called |-> FALSE, caller |-> "none", cleaned |-> FALSE, closed |-> FALSE]

WcIdle ==
    /\ wcPc = "new"
    /\ wcIsWacom = TRUE
    /\ tabMode = "Absolute"
    /\ tabEnabled = TRUE
    /\ priorMode = "Absolute"
    /\ priorEnabled = TRUE
    /\ argRelative = TRUE
    /\ argDisable = TRUE
    /\ device_id = "None"
    /\ original_mode = "None"
    /\ was_enabled = TRUE
    /\ startLog = <<>>
    /\ stopLog = <<>>
    /\ wcHandle = "none"
    /\ inActive = FALSE
    /\ lastStop = NoStop

DeviceTypes == {"wacom", "joystick"}

VdIdle ==
    /\ vdPc = [s \in Sessions |-> "idle"]
    /\ vdType = [s \in Sessions |-> "none"]
    /\ vdNew = [s \in Sessions |-> 0]
    /\ vdDev = [s \in Sessions |-> 0]
    /\ vdCount = [s \in Sessions |-> 0]
    /\ vdTable = [t \in DeviceTypes |-> 0]
    /\ uinputs = {}
    /\ vdWritten = {}
    /\ vdNextId = 1

RegIdle ==
    /\ rgPc = [i \in Conns |-> "idle"]
    /\ rgRef = [i \in Conns |-> 0]
    /\ rgSock = [i \in Conns |-> "open"]
    /\ rgDict = 0
    /\ rgLists = <<>>
    /\ rgNextList = 1

TimerKinds == {"device", "stale"}

TmIdle ==
    /\ tmState = [k \in TimerKinds |-> "waiting"]
    /\ tmRuns = [k \in TimerKinds |-> 0]
    /\ tmCleanPc = "idle"

RecIdle ==
    /\ rcPc = "idle"
    /\ rcSocket = "none"
    /\ rcActive = FALSE
    /\ rcCapture = "none"
    /\ rcLink = TRUE
    /\ rcMonitor = FALSE
    /\ rcRecovering = FALSE
    /\ rcResetPending = FALSE
    /\ rcLast = "none"
    /\ rcSessions = 0

LateIdle == RegIdle /\ TmIdle /\ RecIdle

RestIdle == DiscIdle /\ EmuIdle /\ WcIdle /\ VdIdle /\ LateIdle

EarlyIdle ==
    /\ FramingIdle
    /\ CaptureIdle
    /\ TrustIdle
    /\ ServerIdle
    /\ HostIdle
    /\ DiscIdle
    /\ EmuIdle
    /\ WcIdle
    /\ VdIdle

(***************************************************************************)
(* Framing: NetworkProtocol                                                *)
(*                                                                         *)
(* A message is a JSON object; it is modelled by its string payload, a     *)
(* sequence over Chars.  "n" is the letter n, "nl" is a line feed inside   *)
(* the string, "bs" is a backslash inside the string: the three characters *)
(* whose JSON text can be confused at a line boundary.                     *)
(* Bytes on the wire: "{" "}" "n" "\\" and "LF" (the delimiter 0x0A).      *)
(***************************************************************************)
Chars == {"n", "nl", "bs"}

LF == "LF"

RECURSIVE SeqsUpTo(_, _)
SeqsUpTo(S, n) ==
    IF n = 0 THEN {<<>>}
    ELSE LET shorter == SeqsUpTo(S, n - 1)
         IN  shorter \cup {Append(s, x) : s \in {t \in shorter : Len(t) = n - 1}, x \in S}

Messages == SeqsUpTo(Chars, MaxMsgLen)

\* json.dumps of one character of a string (ensure_ascii: control characters
\* and the backslash are written as two-byte escapes).
EscapeChar(c) ==
    CASE c = "nl" -> <<"\\", "n">>
      [] c = "bs" -> <<"\\", "\\">>
      [] OTHER    -> <<c>>

RECURSIVE EscapeString(_)
EscapeString(s) ==
    IF s = <<>> THEN <<>> ELSE EscapeChar(Head(s)) \o EscapeString(Tail(s))

\* json.dumps(message): the text of the object.
JsonDumps(m) == <<"{">> \o EscapeString(m) \o <<"}">>

\* NetworkProtocol.pack_message: json.dumps(message).encode('utf-8') + b'\n'
pack_message(m) == JsonDumps(m) \o <<LF>>

RECURSIVE encode(_)
encode(ms) ==
    IF ms = <<>> THEN <<>> ELSE pack_message(Head(ms)) \o encode(Tail(ms))

\* The inside of a JSON string: undo the escapes, left to right.  A raw
\* delimiter, a brace, a dangling backslash or an unknown escape is a
\* JSONDecodeError.
RECURSIVE UnescapeString(_)
UnescapeString(bs) ==
    IF bs = <<>> THEN [ok |-> TRUE, val |-> <<>>]
    ELSE IF Head(bs) \notin {"\\", "{", "}", LF}
         THEN LET r == UnescapeString(Tail(bs))
              IN  [ok |-> r.ok, val |-> <<Head(bs)>> \o r.val]
    ELSE IF Head(bs) = "\\" /\ Len(bs) >= 2 /\ bs[2] \in {"n", "\\"}
         THEN LET r == UnescapeString(SubSeq(bs, 3, Len(bs)))
              IN  [ok |-> r.ok,
                   val |-> <<IF bs[2] = "n" THEN "nl" ELSE "bs">> \o r.val]
    ELSE [ok |-> FALSE, val |-> <<>>]

\* json.loads(line.decode('utf-8')): ok = FALSE stands for the exception.
JsonLoads(line) ==
    IF Len(line) >= 2 /\ Head(line) = "{" /\ line[Len(line)] = "}"
    THEN UnescapeString(SubSeq(line, 2, Len(line) - 1))
    ELSE [ok |-> FALSE, val |-> <<>>]

\* Index of the last delimiter in buf, 0 when there is none: what rsplit(b'\n', 1)
\* would cut at.
LastLF(buf) ==
    IF \E i \in 1..Len(buf) : buf[i] = LF
    THEN CHOOSE i \in 1..Len(buf) : buf[i] = LF /\ \A j \in (i + 1)..Len(buf) : buf[j] # LF
    ELSE 0

\* Index of the first delimiter in buf, 0 when there is none: b'\n' in buffer
\* and split(b'\n', 1).
FirstLF(buf) ==
    IF \E i \in 1..Len(buf) : buf[i] = LF
    THEN CHOOSE i \in 1..Len(buf) : buf[i] = LF /\ \A j \in 1..(i - 1) : buf[j] # LF
    ELSE 0

\* Bytes a peer can put on the wire besides those of packed messages: "xFF"
\* is a byte no UTF-8 text holds, "[[" stands for a run of opening brackets
\* longer than the interpreter's recursion limit.
NotUtf8 == "xFF"
DeepNesting == "[["

\* What json.loads(line.decode('utf-8')) does: "ok", or the exception raised
\* (decode raises UnicodeDecodeError, the scanner RecursionError when the
\* nesting exceeds the recursion limit, JSONDecodeError for any other text
\* that is not JSON).
LoadsOutcome(line) ==
    IF \E i \in 1..Len(line) : line[i] = NotUtf8 THEN "UnicodeDecodeError"
    ELSE IF line # <<>> /\ Head(line) = DeepNesting THEN "RecursionError"
    ELSE IF JsonLoads(line).ok THEN "ok"
    ELSE "JSONDecodeError"

\* except (json.JSONDecodeError, UnicodeDecodeError)
CaughtByUnpack(outcome) == outcome \in {"JSONDecodeError", "UnicodeDecodeError"}

\* The while loop of unpack_messages: split at the first delimiter, parse the
\* line when it is not empty, keep the rest.  An exception the except clause
\* does not name leaves the loop: raised is TRUE and the messages collected
\* by this call are lost.
RECURSIVE DrainLines(_, _)
DrainLines(buf, msgs) ==
    LET i == FirstLF(buf) IN
    IF i = 0 THEN [buffer |-> buf, messages |-> msgs, raised |-> FALSE]
    ELSE LET line == SubSeq(buf, 1, i - 1)
             rest == SubSeq(buf, i + 1, Len(buf))
             outcome == LoadsOutcome(line)
         IN  IF line = <<>> THEN DrainLines(rest, msgs)
             ELSE IF outcome = "ok"
                  THEN DrainLines(rest, Append(msgs, JsonLoads(line).val))
             ELSE IF CaughtByUnpack(outcome) THEN DrainLines(rest, msgs)
             ELSE [buffer |-> rest, messages |-> <<>>, raised |-> TRUE]

\* NetworkProtocol.unpack_messages(data) on a protocol whose buffer is buf.
unpack_messages(buf, data) == DrainLines(buf \o data, <<>>)

FramingInit ==
    /\ CaptureIdle
    /\ TrustIdle
    /\ ServerIdle
    /\ HostIdle
    /\ RestIdle
    /\ sent \in SeqsUpTo(Messages, MaxMsgs)
    /\ wire = encode(sent)
    /\ buffer = <<>>
    /\ decoded = <<>>
    /\ calls = 0
    /\ readerPc = "reading"

\* One recv of k bytes followed by unpack_messages on a fresh protocol object.
FeedChunk ==
    \E k \in 1..Len(wire) :
        LET r == unpack_messages(buffer, SubSeq(wire, 1, k)) IN
        /\ wire' = SubSeq(wire, k + 1, Len(wire))
        /\ buffer' = r.buffer
        /\ decoded' = decoded \o r.messages
        /\ calls' = calls + 1
        /\ sent' = sent
        /\ readerPc' = readerPc
        /\ UNCHANGED notFraming

FramingNext == FeedChunk

SpecFraming == FramingInit /\ [][FramingNext]_vars

\* C1: for every list M of messages, feeding encode(M) to a fresh
\* unpack_messages in chunks cut at any byte boundaries returns, over the
\* successive calls, exactly the messages of M in order, and leaves the
\* receive buffer empty.
FramingRoundTrip ==
    /\ Len(decoded) <= Len(sent)
    /\ decoded = SubSeq(sent, 1, Len(decoded))
    /\ (wire = <<>> => decoded = sent /\ buffer = <<>>)

\* A list of two messages, one with a line feed and a backslash in its
\* payload, was delivered in at least three chunks, one of them cut inside a
\* message.
FramingRoundTripWitness ==
    /\ wire = <<>>
    /\ Len(sent) = 2
    /\ sent[1] = <<"bs", "n">>
    /\ sent[2] = <<"nl">>
    /\ calls >= 3
    /\ calls < Len(encode(sent))

(***************************************************************************)
(* A stream with malformed lines: the reader of handle_client receives     *)
(* what a peer wrote, well-formed messages and other lines, and dispatches *)
(* what unpack_messages returns.                                           *)
(***************************************************************************)
\* Lines that are not UTF-8 JSON: a truncated object, a stray text, a byte
\* that is not UTF-8, and brackets nested beyond the recursion limit.
MalformedLines == {<<"{", "n">>, <<"n", "}">>, <<NotUtf8>>, <<DeepNesting>>}

\* What a peer writes: a packed message (good) or a malformed line.
StreamItems ==
    {[good |-> TRUE, msg |-> m, bytes |-> JsonDumps(m)] : m \in {x \in Messages : Len(x) <= 1}}
    \cup {[good |-> FALSE, msg |-> <<>>, bytes |-> l] : l \in MalformedLines}

RECURSIVE StreamBytes(_)
StreamBytes(items) ==
    IF items = <<>> THEN <<>>
    ELSE Head(items).bytes \o <<LF>> \o StreamBytes(Tail(items))

RECURSIVE GoodMessages(_)
GoodMessages(items) ==
    IF items = <<>> THEN <<>>
    ELSE (IF Head(items).good THEN <<Head(items).msg>> ELSE <<>>)
         \o GoodMessages(Tail(items))

MalformedInit ==
    /\ CaptureIdle
    /\ TrustIdle
    /\ ServerIdle
    /\ HostIdle
    /\ RestIdle
    /\ \E items \in SeqsUpTo(StreamItems, MaxLines) :
          /\ sent = GoodMessages(items)
          /\ wire = StreamBytes(items)
    /\ buffer = <<>>
    /\ decoded = <<>>
    /\ calls = 0
    /\ readerPc = "reading"

\* One turn of the while loop of handle_client: recv of k bytes,
\* unpack_messages, and the messages returned are dispatched.
RecvAndDispatch ==
    /\ readerPc = "reading"
    /\ \E k \in 1..Len(wire) :
          LET r == unpack_messages(buffer, SubSeq(wire, 1, k)) IN
          /\ ~r.raised
          /\ wire' = SubSeq(wire, k + 1, Len(wire))
          /\ buffer' = r.buffer
          /\ decoded' = decoded \o r.messages
          /\ calls' = calls + 1
          /\ UNCHANGED <<sent, readerPc, notFraming>>

\* The same turn when unpack_messages raises: except Exception prints the
\* error and the finally block closes the socket.
RecvRaises ==
    /\ readerPc = "reading"
    /\ \E k \in 1..Len(wire) :
          LET r == unpack_messages(buffer, SubSeq(wire, 1, k)) IN
          /\ r.raised
          /\ wire' = SubSeq(wire, k + 1, Len(wire))
          /\ buffer' = r.buffer
          /\ calls' = calls + 1
          /\ readerPc' = "closed"
          /\ UNCHANGED <<sent, decoded, notFraming>>

MalformedNext == RecvAndDispatch \/ RecvRaises

SpecMalformed == MalformedInit /\ [][MalformedNext]_vars

\* C19: a line that is not valid UTF-8 JSON is dropped without terminating
\* the connection: the well-formed messages before and after it are returned
\* in order, and the session stays open and dispatches the later messages.
MalformedLineDropped ==
    /\ readerPc = "reading"
    /\ Len(decoded) <= Len(sent)
    /\ decoded = SubSeq(sent, 1, Len(decoded))
    /\ (wire = <<>> => decoded = sent)

(***************************************************************************)
(* Capture loop: InputCapture._capture_loop                                *)
(*                                                                         *)
(* One InputCapture per device path; each runs its loop in its own thread  *)
(* with its own local event_batch and last_batch_time.                     *)
(***************************************************************************)
\* InputCapture._get_device_type for the device behind each path.
DeviceType(p) == IF p = "p1" THEN "wacom" ELSE "joystick"

\* Event types the device can report: ecodes.EV_SYN, ecodes.EV_ABS and a type
\* outside {EV_ABS, EV_KEY, EV_REL, EV_SYN}.
EventTypes == {"EV_SYN", "EV_ABS", "EV_MSC"}

BATCH_TIMEOUT_MS == 10

\* InputCapture._event_code_to_string: the prefix of the symbolic name is
\* chosen by the event type; any other type gives TYPE_<t>_CODE_<c>.
event_code_to_string(type) ==
    CASE type = "EV_ABS" -> "ABS_"
      [] type = "EV_KEY" -> "BTN_"
      [] type = "EV_REL" -> "REL_"
      [] type = "EV_SYN" -> "SYN_"
      [] OTHER           -> "TYPE_"

\* The InputEvent built from an evdev event read from the device of path p.
\* dev is not a field of the code's InputEvent: it records which device the
\* event was read from.
InputEvent(p, type) == [code |-> event_code_to_string(type), dev |-> p]

\* Flush condition without the sync test.
ShouldFlushTimeoutOnly(type, cur, last) == cur - last > BATCH_TIMEOUT_MS

\* if (event.type == ecodes.EV_SYN or current_time - last_batch_time > 0.01)
ShouldFlush(type, cur, last) ==
    type = "EV_SYN" \/ cur - last > BATCH_TIMEOUT_MS

\* Both capture threads have just entered _capture_loop.
CaptureInit ==
    /\ FramingIdle
    /\ TrustIdle
    /\ ServerIdle
    /\ HostIdle
    /\ RestIdle
    /\ capPc = [p \in CapPaths |-> "reading"]
    /\ capRunning = [p \in CapPaths |-> TRUE]
    /\ capBatch = [p \in CapPaths |-> <<>>]
    /\ capLast = [p \in CapPaths |-> 0]
    /\ capNow = 0
    /\ delivered = NoDelivery

\* time passes
CapTick ==
    /\ capNow + TickMs <= MaxTime
    /\ capNow' = capNow + TickMs
    /\ UNCHANGED <<capPc, capRunning, capBatch, capLast, delivered, notCapture>>

\* InputCapture.stop: self.running = False
CapStop(p) ==
    /\ capRunning[p]
    /\ capRunning' = [capRunning EXCEPT ![p] = FALSE]
    /\ UNCHANGED <<capPc, capBatch, capLast, capNow, delivered, notCapture>>

\* One iteration of "for event in self.device.read_loop()".
CapReadEvent(p) ==
    /\ capPc[p] = "reading"
    /\ \E type \in EventTypes :
        IF ~capRunning[p]
        THEN \* if not self.running: break
             /\ capPc' = [capPc EXCEPT ![p] = "done"]
             /\ UNCHANGED <<capBatch, capLast, delivered>>
        ELSE LET batch == Append(capBatch[p], InputEvent(p, type)) IN
             /\ Len(capBatch[p]) < MaxBatchLen \/ ShouldFlush(type, capNow, capLast[p])
             /\ IF ShouldFlush(type, capNow, capLast[p])
                THEN /\ delivered' = [cap |-> p, device_type |-> DeviceType(p),
                                      events |-> batch]
                     /\ capBatch' = [capBatch EXCEPT ![p] = <<>>]
                     /\ capLast' = [capLast EXCEPT ![p] = capNow]
                ELSE /\ capBatch' = [capBatch EXCEPT ![p] = batch]
                     /\ UNCHANGED <<capLast, delivered>>
             /\ capPc' = capPc
    /\ UNCHANGED <<capRunning, capNow, notCapture>>

CaptureNext ==
    \/ CapTick
    \/ \E p \in CapPaths : CapStop(p)
    \/ \E p \in CapPaths : CapReadEvent(p)

SpecCapture == CaptureInit /\ [][CaptureNext]_vars

IsSyn(e) == e.code = "SYN_"

\* C7: every batch handed to the sink holds events of exactly one device, and
\* a SYN_* event in a batch is the last element of that batch.
BatchAtomicity ==
    LET b == delivered.events IN
    delivered.cap # "none" =>
        /\ b # <<>>
        /\ \A i \in 1..Len(b) : b[i].dev = delivered.cap
        /\ delivered.device_type = DeviceType(delivered.cap)
        /\ \A i \in 1..Len(b) : IsSyn(b[i]) => i = Len(b)

\* A batch of several events closed by a sync event was delivered for one
\* device while the loop of the other device held an open batch.
BatchAtomicityWitness ==
    /\ delivered.cap = "p1"
    /\ Len(delivered.events) >= 2
    /\ IsSyn(delivered.events[Len(delivered.events)])
    /\ capBatch["p2"] # <<>>

(***************************************************************************)
(* Trust registry and authorisation decision:                              *)
(* ConfigManager.add_trusted_host / remove_trusted_host / is_host_trusted  *)
(* / should_auto_accept_host and the head of _setup_server.auth_callback   *)
(***************************************************************************)
\* is_host_trusted without the comparison of the ids.
is_host_trusted_by_name(reg, host_name, host_id) == reg[host_name].present

\* ConfigManager.is_host_trusted
is_host_trusted(reg, host_name, host_id) ==
    IF ~reg[host_name].present THEN FALSE
    ELSE reg[host_name].host_id = host_id

\* ConfigManager.should_auto_accept_host
should_auto_accept_host(reg, fallback, host_name) ==
    IF ~reg[host_name].present THEN fallback
    ELSE reg[host_name].auto_accept

\* auth_callback: TRUE when the handshake is accepted without asking the user
\* (the first return of the callback), FALSE when the prompt is shown.
AcceptsSilently(reg, fallback, host_name, host_id) ==
    /\ is_host_trusted(reg, host_name, host_id)
    /\ should_auto_accept_host(reg, fallback, host_name)

\* The registry as loaded from the configuration file.
TrustInit ==
    /\ FramingIdle
    /\ CaptureIdle
    /\ ServerIdle
    /\ HostIdle
    /\ RestIdle
    /\ trusted_hosts \in [Names -> Entries]
    /\ auto_accept_trusted \in BOOLEAN
    /\ lastAuth = NoAuth

\* ConfigManager.add_trusted_host(host_name, host_id, auto_accept)
AddTrustedHost ==
    \E n \in Names, id \in Ids \ {"None"}, auto \in BOOLEAN :
        /\ trusted_hosts' = [trusted_hosts EXCEPT
               ![n] = [present |-> TRUE, host_id |-> id, auto_accept |-> auto]]
        /\ UNCHANGED <<auto_accept_trusted, lastAuth, notTrust>>

\* ConfigManager.remove_trusted_host(host_name)
RemoveTrustedHost ==
    \E n \in Names :
        /\ trusted_hosts[n].present
        /\ trusted_hosts' = [trusted_hosts EXCEPT ![n] = NoEntry]
        /\ UNCHANGED <<auto_accept_trusted, lastAuth, notTrust>>

\* auth_callback is handed a handshake carrying (host_name, host_id).
DecideHandshake ==
    \E n \in Names, id \in Ids :
        /\ lastAuth' = [host_name |-> n, host_id |-> id,
                        silent |-> AcceptsSilently(trusted_hosts, auto_accept_trusted, n, id),
                        entry |-> trusted_hosts[n]]
        /\ UNCHANGED <<trusted_hosts, auto_accept_trusted, notTrust>>

TrustNext == AddTrustedHost \/ RemoveTrustedHost \/ DecideHandshake

SpecTrust == TrustInit /\ [][TrustNext]_vars

\* C6: a handshake is accepted without prompting the user if and only if the
\* trusted-hosts registry has an entry for host_name whose stored host_id
\* equals the incoming host_id and whose auto_accept is true.
TrustKeyStability ==
    lastAuth.host_name # "none" =>
        (lastAuth.silent <=>
            /\ lastAuth.entry.present
            /\ lastAuth.entry.host_id = lastAuth.host_id
            /\ lastAuth.entry.auto_accept)

\* A host trusted as (H1, id1) with auto_accept presented (H1, id2) and was
\* not accepted silently.
TrustKeyStabilityWitness ==
    /\ lastAuth.host_name = "H1"
    /\ lastAuth.host_id = "id2"
    /\ lastAuth.entry = [present |-> TRUE, host_id |-> "id1", auto_accept |-> TRUE]
    /\ ~lastAuth.silent

Handshake(n, id) == [device_type |-> "none", host_id |-> id, host_name |-> n,
                     type |-> "handshake", lacks |-> {}]
EventMsg(dt) == [device_type |-> dt, host_id |-> "None", host_name |-> "None",
                 type |-> "event", lacks |-> {}]
DisconnectMsg == [device_type |-> "none", host_id |-> "None", host_name |-> "None",
                  type |-> "disconnect", lacks |-> {}]

\* What a peer may send: the handshake of a host trusted under (H1, id1), the
\* handshake of an unknown host, an event batch, a disconnect.
PeerMsgs == {Handshake("H1", "id1"), Handshake("H2", "id2"), EventMsg("wacom"),
             DisconnectMsg}

\* list.remove(x): drop the first occurrence of x, if any.
RECURSIVE RemoveFirst(_, _)
RemoveFirst(l, x) ==
    IF l = <<>> THEN <<>>
    ELSE IF Head(l) = x THEN Tail(l)
    ELSE <<Head(l)>> \o RemoveFirst(Tail(l), x)

InSeq(l, x) == \E k \in 1..Len(l) : l[k] = x

\* The finally block of handle_client, for the connection i whose local
\* host_name is name: the socket is taken out of the list registered under
\* that name (ValueError passes).
Unregister(reg, name, i) ==
    IF name \in Names /\ reg[name] # <<>>
    THEN [reg EXCEPT ![name] = RemoveFirst(reg[name], i)]
    ELSE reg

\* TransWacomTrayApp._add_incoming_connection
add_incoming_connection(l, name) == IF InSeq(l, name) THEN l ELSE Append(l, name)

\* The server has accepted both sockets and started their reader threads.
ServerInit ==
    /\ FramingIdle
    /\ CaptureIdle
    /\ HostIdle
    /\ RestIdle
    /\ trusted_hosts = [n \in Names |->
           IF n = "H1" THEN [present |-> TRUE, host_id |-> "id1", auto_accept |-> TRUE]
           ELSE NoEntry]
    /\ auto_accept_trusted = TRUE
    /\ lastAuth = NoAuth
    /\ inPc = [i \in Conns |-> "recv"]
    /\ inNet = [i \in Conns |-> <<>>]
    /\ peerSent = [i \in Conns |-> 0]
    /\ peerClosed = [i \in Conns |-> FALSE]
    /\ inMsgs = [i \in Conns |-> <<>>]
    /\ handshake_done = [i \in Conns |-> FALSE]
    /\ inHostName = [i \in Conns |-> "None"]
    /\ inSock = [i \in Conns |-> "open"]
    /\ authReply = [i \in Conns |-> "none"]
    /\ userAnswer = [i \in Conns |-> "none"]
    /\ incoming_sockets = [n \in Names |-> <<>>]
    /\ incoming_connections = <<>>
    /\ virtual_devices = {}
    /\ uinputOk \in BOOLEAN
    /\ injected = <<>>
    /\ authSent = [i \in Conns |-> NoReply]
    /\ hsLacks = [i \in Conns |-> {}]
    /\ gotDisconnect = [i \in Conns |-> FALSE]
    /\ inError = [i \in Conns |-> "none"]
    /\ revoked = {}

\* The peer of connection i sends one more message, one of msgs.
PeerSendFrom(i, msgs) ==
    /\ ~peerClosed[i]
    /\ peerSent[i] < MaxPeerMsgs
    /\ \E m \in msgs : inNet' = [inNet EXCEPT ![i] = Append(@, m)]
    /\ peerSent' = [peerSent EXCEPT ![i] = @ + 1]
    /\ UNCHANGED <<inPc, peerClosed, inMsgs, handshake_done, inHostName, inSock,
                   authReply, userAnswer, incoming_sockets, incoming_connections,
                   virtual_devices, uinputOk, injected, trustVars, notServer>>
    /\ UNCHANGED <<authSent, hsLacks, gotDisconnect, inError, revoked>>

PeerSend(i) == PeerSendFrom(i, PeerMsgs)

\* The peer of connection i closes its end (or is killed).
PeerClose(i) ==
    /\ ~peerClosed[i]
    /\ peerClosed' = [peerClosed EXCEPT ![i] = TRUE]
    /\ UNCHANGED <<inPc, inNet, peerSent, inMsgs, handshake_done, inHostName, inSock,
                   authReply, userAnswer, incoming_sockets, incoming_connections,
                   virtual_devices, uinputOk, injected, trustVars, notServer>>
    /\ UNCHANGED <<authSent, hsLacks, gotDisconnect, inError, revoked>>

\* The end of handle_client: the finally block, then the thread is over.
ReaderExit(i) ==
    /\ incoming_sockets' = Unregister(incoming_sockets, inHostName[i], i)
    /\ inSock' = [inSock EXCEPT ![i] = "closed"]
    /\ inPc' = [inPc EXCEPT ![i] = "closed"]
    /\ inMsgs' = [inMsgs EXCEPT ![i] = <<>>]

\* data = client_sock.recv(1024); messages = client_protocol.unpack_messages(data)
\* Either some complete messages arrive, or the peer has closed and recv
\* returns b'' (break, then the finally block).
InRecv(i) ==
    /\ inPc[i] = "recv"
    /\ \/ /\ inNet[i] # <<>>
          /\ \E k \in 1..Len(inNet[i]) :
                /\ inMsgs' = [inMsgs EXCEPT ![i] = SubSeq(inNet[i], 1, k)]
                /\ inNet' = [inNet EXCEPT ![i] = SubSeq(@, k + 1, Len(@))]
          /\ inPc' = [inPc EXCEPT ![i] = "loop"]
          /\ UNCHANGED <<inSock, incoming_sockets>>
       \/ /\ inNet[i] = <<>>
          /\ peerClosed[i]
          /\ ReaderExit(i)
          /\ UNCHANGED inNet
    /\ UNCHANGED <<peerSent, peerClosed, handshake_done, inHostName, authReply, userAnswer,
                   incoming_connections, virtual_devices, uinputOk, injected,
                   trustVars, notServer>>
    /\ UNCHANGED <<authSent, hsLacks, gotDisconnect, inError, revoked>>

\* for message in messages: the list is exhausted, back to recv.
InLoopEnd(i) ==
    /\ inPc[i] = "loop"
    /\ inMsgs[i] = <<>>
    /\ inPc' = [inPc EXCEPT ![i] = "recv"]
    /\ UNCHANGED <<inNet, peerSent, peerClosed, inMsgs, handshake_done, inHostName,
                   inSock, authReply, userAnswer, incoming_sockets, incoming_connections,
                   virtual_devices, uinputOk, injected, trustVars, notServer>>
    /\ UNCHANGED <<authSent, hsLacks, gotDisconnect, inError, revoked>>

\* socket.gethostname() of the consumer, the constant handle_client passes
\* as consumer_id, and ConfigManager.machine_id (sha256 of host name and MAC
\* address, 16 hex digits).
ConsumerHostName == "consumer-host"
ConsumerIdSent == "consumer_id_placeholder"
machine_id == "sha256(consumer-host:mac)[:16]"

\* NetworkProtocol.create_auth_response as handle_client calls it.
create_auth_response(accepted) ==
    [accepted |-> accepted, consumer_name |-> ConsumerHostName,
     consumer_id |-> ConsumerIdSent]

\* auth_callback that takes silence for consent.
auth_callback_silence_accepts(silent, answer) == silent \/ answer # "reject"

\* auth_callback of _setup_server: the host name is returned (accept) for a
\* trusted auto-accept host without asking, else when set_accept stored it
\* before event.wait(timeout=30) returned; an explicit reject (False) and no
\* answer within the 30 s (None) both return None.
auth_callback(silent, answer) == silent \/ answer = "accept"

\* msg_type == 'handshake': auth_callback decides (silently for a trusted
\* host, else by the user's answer: "accept", "reject", or none within 30 s),
\* the auth_response is sent, and the socket is registered or closed.
InHandshake(i) ==
    /\ inPc[i] = "loop"
    /\ inMsgs[i] # <<>>
    /\ Head(inMsgs[i]).type = "handshake"
    /\ LET m == Head(inMsgs[i])
           silent == AcceptsSilently(trusted_hosts, auto_accept_trusted,
                                     m.host_name, m.host_id)
       IN  \E answer \in {"accept", "reject", "timeout"} :
             /\ silent => answer = "accept"
             /\ userAnswer' = [userAnswer EXCEPT ![i] = IF silent THEN "silent" ELSE answer]
             /\ IF auth_callback(silent, answer)
                THEN /\ incoming_connections' =
                            add_incoming_connection(incoming_connections, m.host_name)
                     /\ authReply' = [authReply EXCEPT ![i] = "accepted"]
                     /\ incoming_sockets' = [incoming_sockets EXCEPT
                            ![m.host_name] = Append(@, i)]
                     /\ inHostName' = [inHostName EXCEPT ![i] = m.host_name]
                     /\ handshake_done' = [handshake_done EXCEPT ![i] = TRUE]
                     /\ inMsgs' = [inMsgs EXCEPT ![i] = Tail(@)]
                     /\ UNCHANGED <<inPc, inSock>>
                ELSE \* client_sock.close(); return, through the finally block
                     /\ authReply' = [authReply EXCEPT ![i] = "rejected"]
                     /\ inHostName' = [inHostName EXCEPT ![i] = m.host_name]
                     /\ incoming_sockets' = Unregister(incoming_sockets, m.host_name, i)
                     /\ inSock' = [inSock EXCEPT ![i] = "closed"]
                     /\ inPc' = [inPc EXCEPT ![i] = "closed"]
                     /\ inMsgs' = [inMsgs EXCEPT ![i] = <<>>]
                     /\ UNCHANGED <<incoming_connections, handshake_done>>
    /\ UNCHANGED <<inNet, peerSent, peerClosed, virtual_devices, uinputOk, injected,
                   trustVars, notServer>>
    /\ hsLacks' = [hsLacks EXCEPT ![i] = Head(inMsgs[i]).lacks]
    /\ authSent' = [authSent EXCEPT ![i] = create_auth_response(authReply'[i] = "accepted")]
    /\ UNCHANGED <<gotDisconnect, inError, revoked>>

\* create_virtual_device knows 'wacom' and 'joystick'.
SupportedTypes == {"wacom", "joystick"}

\* msg_type == 'event': event_callback(device_type, events), that is
\* DeviceEmulationManager.process_events: the virtual device is created on
\* first use, and the batch is written when the device exists.
InEvent(i) ==
    /\ inPc[i] = "loop"
    /\ inMsgs[i] # <<>>
    /\ Head(inMsgs[i]).type = "event"
    /\ LET dt == Head(inMsgs[i]).device_type
           exists == dt \in virtual_devices \/ (dt \in SupportedTypes /\ uinputOk)
       IN  /\ virtual_devices' = IF exists THEN virtual_devices \cup {dt}
                                 ELSE virtual_devices
           /\ injected' = Append(injected,
                  [conn |-> i, device_type |-> dt, written |-> exists,
                   after_accept |-> handshake_done[i],
                   after_disconnect |-> gotDisconnect[i],
                   lacks |-> Head(inMsgs[i]).lacks])
    /\ inMsgs' = [inMsgs EXCEPT ![i] = Tail(@)]
    /\ UNCHANGED <<inPc, inNet, peerSent, peerClosed, handshake_done, inHostName,
                   inSock, authReply, userAnswer, incoming_sockets, incoming_connections,
                   uinputOk, trustVars, notServer>>
    /\ UNCHANGED <<authSent, hsLacks, gotDisconnect, inError, revoked>>

\* msg_type == 'disconnect': break, which leaves the for loop (the rest of
\* the list is dropped) and returns to the recv of the while loop.
InDisconnect(i) ==
    /\ inPc[i] = "loop"
    /\ inMsgs[i] # <<>>
    /\ Head(inMsgs[i]).type = "disconnect"
    /\ inMsgs' = [inMsgs EXCEPT ![i] = <<>>]
    /\ inPc' = [inPc EXCEPT ![i] = "recv"]
    /\ UNCHANGED <<inNet, peerSent, peerClosed, handshake_done, inHostName,
                   inSock, authReply, userAnswer, incoming_sockets, incoming_connections,
                   virtual_devices, uinputOk, injected, trustVars, notServer>>
    /\ gotDisconnect' = [gotDisconnect EXCEPT ![i] = TRUE]
    /\ UNCHANGED <<authSent, hsLacks, inError, revoked>>

ServerNext ==
    \/ \E i \in Conns : PeerSend(i)
    \/ \E i \in Conns : PeerClose(i)
    \/ \E i \in Conns : InRecv(i)
    \/ \E i \in Conns : InLoopEnd(i)
    \/ \E i \in Conns : InHandshake(i)
    \/ \E i \in Conns : InEvent(i)
    \/ \E i \in Conns : InDisconnect(i)

SpecServer == ServerInit /\ [][ServerNext]_vars

\* C5: on every inbound connection an event message reaches event_callback
\* only after a handshake received on that same connection was accepted.
EventsOnlyAfterAcceptedHandshake ==
    \A k \in 1..Len(injected) : injected[k].after_accept

(***************************************************************************)
(* Outbound side: TransWacomTrayApp._connect_device_to_consumer /          *)
(* _perform_connection, TransNetwork.connect_to_consumer /                 *)
(* disconnect_from_consumer / send_events, HostInputManager.start_capture  *)
(* / stop_capture / stop_all_captures, InputCapture.start / stop,          *)
(* WacomController, _disconnect_outgoing, _cleanup_resources, _quit,       *)
(* _emergency_cleanup.                                                     *)
(*                                                                         *)
(* Every menu click starts a daemon thread that runs _perform_connection;  *)
(* the threads, the capture threads and the main thread (menu callbacks,   *)
(* signal handler) interleave between the statements modelled as steps.    *)
(***************************************************************************)
\* InputCapture._is_wacom_device for the device behind each path.
IsWacom(p) == DeviceType(p) = "wacom"

\* The auth_response messages a consumer sends, as payloads of the codec:
\* accepted=true and accepted=false.
AuthAccepted == <<"T">>
AuthRejected == <<"F">>

\* The application state _cleanup_resources works on, with the counts of
\* device-control commands and disconnect messages issued so far by the call.
HostState ==
    [capState |-> capState, origMode |-> origMode, active_captures |-> active_captures,
     devMode |-> devMode, devEnabled |-> devEnabled, sock |-> sock,
     disconnects |-> disconnects, active_connections |-> active_connections,
     outgoing_connections |-> outgoing_connections, timers |-> timers,
     server_socket |-> server_socket, mdns |-> mdns, discovery |-> discovery,
     virtual_devices |-> virtual_devices, incoming_connections |-> incoming_connections,
     log |-> <<>>, cmds |-> 0, disc |-> 0]

\* InputCapture.stop for the capture t on path p: running = False, join,
\* WacomController.cleanup (enable_local_input since was_enabled is always
\* True, then restore_absolute_mode when original_mode is set), device.close.
\* Without a device id (toolsOk false) no command is issued.
InputCapture_stop(h, p, t) ==
    LET ctl == IsWacom(p) /\ toolsOk
        restoreMode == ctl /\ h.origMode[t] # "None"
    IN  [h EXCEPT !.capState[t] = "stopped",
                  !.devEnabled = IF ctl THEN TRUE ELSE @,
                  !.devMode = IF restoreMode THEN h.origMode[t] ELSE @,
                  !.cmds = @ + (IF ctl THEN 1 ELSE 0) + (IF restoreMode THEN 1 ELSE 0)]

\* HostInputManager.stop_capture
stop_capture(h, p) ==
    IF h.active_captures[p] = "none" THEN h
    ELSE [InputCapture_stop(h, p, h.active_captures[p]) EXCEPT
              !.active_captures[p] = "none"]

\* HostInputManager.stop_all_captures
RECURSIVE stop_captures_in(_, _)
stop_captures_in(h, ps) ==
    IF ps = {} THEN h
    ELSE LET p == CHOOSE q \in ps : TRUE
         IN  stop_captures_in(stop_capture(h, p), ps \ {p})

stop_all_captures(h) == stop_captures_in(h, CapPaths)

\* TransNetwork.disconnect_from_consumer(sock of thread t): the disconnect
\* message is attempted; when the send works the entry of the socket's peer
\* leaves active_connections; the socket is closed in the finally block.
disconnect_from_consumer(h, t) ==
    LET sendOk == h.sock[t] = "open" /\ linkUp[t] IN
    [h EXCEPT !.disc = @ + 1,
              !.disconnects[t] = @ + 1,
              !.active_connections = IF sendOk THEN @ \ {tCons[t]} ELSE @,
              !.sock[t] = "closed"]

\* for info in self.outgoing_connections.values(): disconnect_from_consumer
RECURSIVE disconnect_all_in(_, _)
disconnect_all_in(h, cs) ==
    IF cs = {} THEN h
    ELSE LET c == CHOOSE d \in cs : TRUE
             t == h.outgoing_connections[c]
         IN  disconnect_all_in(IF t = "none" THEN h ELSE disconnect_from_consumer(h, t),
                               cs \ {c})

\* TransWacomTrayApp._cleanup_resources(full_shutdown), started on h with its
\* counters at zero.
cleanup_resources(h, full_shutdown) ==
    LET h0 == [h EXCEPT !.log = <<>>, !.cmds = 0, !.disc = 0]
        h1 == [h0 EXCEPT !.timers = "cancelled", !.log = Append(@, "cancel_timers")]
        h2 == [stop_all_captures(h1) EXCEPT !.log = Append(@, "stop_captures")]
        h3 == [h2 EXCEPT !.virtual_devices = {}, !.log = Append(@, "destroy_devices")]
        h4 == [disconnect_all_in(h3, Consumers) EXCEPT
                   !.outgoing_connections = [c \in Consumers |-> "none"],
                   !.log = Append(@, "close_sockets")]
        h5 == [h4 EXCEPT !.incoming_connections = <<>>,
                         !.log = Append(@, "clear_incoming_list")]
    IN  IF full_shutdown
        THEN [h5 EXCEPT !.server_socket = "closed", !.mdns = "unpublished",
                        !.discovery = "stopped",
                        !.log = @ \o <<"close_server", "unpublish_mdns", "stop_discovery">>]
        ELSE h5

\* The part of a cleaned state that is application state (not the counters).
Core(h) == [h EXCEPT !.log = <<>>, !.cmds = 0, !.disc = 0]

HostInit ==
    /\ FramingIdle
    /\ CaptureIdle
    /\ TrustIdle
    /\ ServerIdle
    /\ RestIdle
    /\ phase = "running"
    /\ pc = [t \in Threads |-> "idle"]
    /\ tDev = [t \in Threads |-> "none"]
    /\ tCons = [t \in Threads |-> "none"]
    /\ resp = [t \in Threads |-> "none"]
    /\ sock = [t \in Threads |-> "none"]
    /\ linkUp = [t \in Threads |-> TRUE]
    /\ disconnects = [t \in Threads |-> 0]
    /\ streamed = [t \in Threads |-> FALSE]
    /\ stopReq = [t \in Threads |-> FALSE]
    /\ lossSeen = [t \in Threads |-> FALSE]
    /\ protoBuffer = <<>>
    /\ active_connections = {}
    /\ outgoing_connections = [c \in Consumers |-> "none"]
    /\ active_captures = [p \in CapPaths |-> "none"]
    /\ capState = [t \in Threads |-> "none"]
    /\ origMode = [t \in Threads |-> "None"]
    /\ devMode = "Absolute"
    /\ devEnabled = TRUE
    /\ toolsOk = TRUE
    /\ relative_mode = TRUE
    /\ timers = "armed"
    /\ server_socket = "listening"
    /\ mdns = "published"
    /\ discovery = "browsing"
    /\ cleanups = 0
    /\ lastCleanup = NoCleanup

\* The thread of _perform_connection returns: its locals are gone.
ThreadEnds(t) ==
    /\ tDev' = [tDev EXCEPT ![t] = "none"]
    /\ tCons' = [tCons EXCEPT ![t] = "none"]
    /\ resp' = [resp EXCEPT ![t] = "none"]
    /\ pc' = [pc EXCEPT ![t] = "failed"]

\* _connect_device_to_consumer(device, consumer), a menu callback of the main
\* thread: the new thread runs _perform_connection up to the recv of
\* connect_to_consumer (socket connected, handshake sent), or sock.connect
\* raises and the call returns None.  The threads are anonymous: the first
\* one started is called t1.
StartConnect(t) ==
    /\ phase = "running"
    /\ pc[t] = "idle"
    /\ t = "t2" => pc["t1"] # "idle"
    /\ \E p \in CapPaths, c \in Consumers, connected \in BOOLEAN :
        IF connected
        THEN /\ tDev' = [tDev EXCEPT ![t] = p]
             /\ tCons' = [tCons EXCEPT ![t] = c]
             /\ sock' = [sock EXCEPT ![t] = "open"]
             /\ pc' = [pc EXCEPT ![t] = "await"]
             /\ UNCHANGED resp
        ELSE /\ sock' = [sock EXCEPT ![t] = "leaked"]
             /\ ThreadEnds(t)
    /\ UNCHANGED <<phase, linkUp, disconnects, streamed, stopReq, lossSeen,
                   protoBuffer, active_connections, outgoing_connections,
                   active_captures, capState, origMode, devMode, devEnabled, toolsOk,
                   relative_mode, timers, server_socket, mdns, discovery, cleanups,
                   lastCleanup, serverVars, notHost>>

\* What one recv(1024) returns of the answer r of the consumer: the whole
\* packed auth_response, or, when TCP delivers the answer in two segments
\* (or the answer is longer than 1024 bytes), its first part only, here the
\* JSON text without the newline that ends it.
FirstRead(r) ==
    CASE r = "accept"       -> pack_message(AuthAccepted)
      [] r = "accept_split" -> JsonDumps(AuthAccepted)
      [] r = "reject"       -> pack_message(AuthRejected)
      [] OTHER              -> <<>>

\* response_data = sock.recv(1024), then the first statement of
\* unpack_messages: self.buffer += data.  The consumer answered with an
\* accepted auth_response (delivered whole or split) or a rejected one,
\* closed (b''), or stayed silent for 60 s (socket.timeout: the except
\* branch returns None).  connect_to_consumer calls recv once.
RecvResponse(t) ==
    /\ phase # "exited"
    /\ pc[t] = "await"
    /\ \E r \in {"accept", "accept_split", "reject", "eof", "timeout"} :
        IF r = "timeout"
        THEN /\ ThreadEnds(t)
             /\ sock' = [sock EXCEPT ![t] = "leaked"]
             /\ UNCHANGED protoBuffer
        ELSE /\ resp' = [resp EXCEPT ![t] = r]
             /\ pc' = [pc EXCEPT ![t] = "unpack"]
             /\ protoBuffer' = protoBuffer \o FirstRead(r)
             /\ UNCHANGED <<sock, tDev, tCons>>
    /\ UNCHANGED <<phase, linkUp, disconnects, streamed, stopReq, lossSeen,
                   active_connections, outgoing_connections, active_captures, capState,
                   origMode, devMode, devEnabled, toolsOk, relative_mode, timers,
                   server_socket, mdns, discovery, cleanups, lastCleanup, serverVars,
                   notHost>>

\* messages and messages[0].get('type') == 'auth_response' and
\* auth_response.get('accepted'): the decision looks at messages[0] alone,
\* whichever connection its bytes came from.
handshake_accepted(messages) == messages # <<>> /\ messages[1] = AuthAccepted

\* The while loop of unpack_messages on the shared protocol, then the rest of
\* connect_to_consumer: on an accepted auth_response the connection is
\* recorded in active_connections and the socket returned; otherwise the
\* socket is closed and None returned.
UnpackResponse(t) ==
    /\ phase # "exited"
    /\ pc[t] = "unpack"
    /\ LET r == DrainLines(protoBuffer, <<>>) IN
        /\ protoBuffer' = r.buffer
        /\ IF handshake_accepted(r.messages)
           THEN /\ active_connections' = active_connections \cup {tCons[t]}
                /\ pc' = [pc EXCEPT ![t] = "connected"]
                /\ UNCHANGED <<sock, tDev, tCons, resp>>
           ELSE /\ sock' = [sock EXCEPT ![t] = "closed"]
                /\ ThreadEnds(t)
                /\ UNCHANGED active_connections
    /\ UNCHANGED <<phase, linkUp, disconnects, streamed, stopReq, lossSeen,
                   outgoing_connections, active_captures, capState, origMode, devMode,
                   devEnabled, toolsOk, relative_mode, timers, server_socket, mdns,
                   discovery, cleanups, lastCleanup, serverVars, notHost>>

\* self.outgoing_connections[consumer.unique_id] = {...}
RegisterOutgoing(t) ==
    /\ phase # "exited"
    /\ pc[t] = "connected"
    /\ outgoing_connections' = [outgoing_connections EXCEPT ![tCons[t]] = t]
    /\ pc' = [pc EXCEPT ![t] = "sc_check"]
    /\ UNCHANGED <<phase, tDev, tCons, resp, sock, linkUp, disconnects, streamed,
                   stopReq, lossSeen, protoBuffer, active_connections, active_captures,
                   capState, origMode, devMode, devEnabled, toolsOk, relative_mode,
                   timers, server_socket, mdns, discovery, cleanups, lastCleanup,
                   serverVars, notHost>>

\* The failure branch of _perform_connection: disconnect_from_consumer, then
\* del self.outgoing_connections[uid] (a KeyError is caught by the outer
\* except); the call returns False.
FailedCapture(t) ==
    LET h == disconnect_from_consumer(HostState, t) IN
    /\ sock' = h.sock
    /\ disconnects' = h.disconnects
    /\ active_connections' = h.active_connections
    /\ outgoing_connections' = [outgoing_connections EXCEPT ![tCons[t]] = "none"]
    /\ ThreadEnds(t)

\* start_capture, first statement: if device_path in self.active_captures.
CaptureCheck(t) ==
    /\ phase # "exited"
    /\ pc[t] = "sc_check"
    /\ IF active_captures[tDev[t]] # "none"
       THEN FailedCapture(t)
       ELSE /\ pc' = [pc EXCEPT ![t] = "sc_start"]
            /\ UNCHANGED <<sock, disconnects, active_connections, outgoing_connections,
                           tDev, tCons, resp>>
    /\ UNCHANGED <<phase, linkUp, streamed, stopReq, lossSeen, protoBuffer,
                   active_captures, capState, origMode, devMode, devEnabled, toolsOk,
                   relative_mode, timers, server_socket, mdns, discovery, cleanups,
                   lastCleanup, serverVars, notHost>>

\* InputCapture(device_path).start(...): the device is opened (or the open
\* raises and start returns False); for a tablet the controller sets the
\* relative mode (recording original_mode = "Absolute") and disables local
\* input; the capture thread is started.
CaptureStart(t) ==
    /\ phase # "exited"
    /\ pc[t] = "sc_start"
    /\ \E opened \in BOOLEAN :
        IF opened
        THEN LET ctl == IsWacom(tDev[t]) /\ toolsOk IN
             /\ capState' = [capState EXCEPT ![t] = "running"]
             /\ origMode' = [origMode EXCEPT
                    ![t] = IF ctl /\ relative_mode THEN "Absolute" ELSE @]
             /\ devMode' = IF ctl /\ relative_mode THEN "Relative" ELSE devMode
             /\ devEnabled' = IF ctl THEN FALSE ELSE devEnabled
             /\ pc' = [pc EXCEPT ![t] = "sc_register"]
             /\ UNCHANGED <<sock, disconnects, active_connections, outgoing_connections,
                            tDev, tCons, resp>>
        ELSE /\ FailedCapture(t)
             /\ UNCHANGED <<capState, origMode, devMode, devEnabled>>
    /\ UNCHANGED <<phase, linkUp, streamed, stopReq, lossSeen, protoBuffer,
                   active_captures, toolsOk, relative_mode, timers, server_socket,
                   mdns, discovery, cleanups, lastCleanup, serverVars, notHost>>

\* self.active_captures[device_path] = capture; return True
CaptureRegister(t) ==
    /\ phase # "exited"
    /\ pc[t] = "sc_register"
    /\ active_captures' = [active_captures EXCEPT ![tDev[t]] = t]
    /\ pc' = [pc EXCEPT ![t] = "streaming"]
    /\ UNCHANGED <<phase, tDev, tCons, resp, sock, linkUp, disconnects, streamed,
                   stopReq, lossSeen, protoBuffer, active_connections,
                   outgoing_connections, capState, origMode, devMode, devEnabled,
                   toolsOk, relative_mode, timers, server_socket, mdns, discovery,
                   cleanups, lastCleanup, serverVars, notHost>>

\* TransWacomTrayApp._disconnect_outgoing(consumer_id)
disconnect_outgoing(out, c) == [out EXCEPT ![c] = "none"]

\* The capture thread of capture t hands a batch to the event_callback closure
\* of _perform_connection: nothing when the consumer has no entry in
\* outgoing_connections, else send_events on the thread's own socket and,
\* when that fails, _disconnect_outgoing.
CaptureEvent(t) ==
    /\ phase # "exited"
    /\ capState[t] = "running"
    /\ outgoing_connections[tCons[t]] # "none"
    /\ IF sock[t] = "open" /\ linkUp[t]
       THEN /\ ~streamed[t]
            /\ streamed' = [streamed EXCEPT ![t] = TRUE]
            /\ UNCHANGED <<outgoing_connections, lossSeen>>
       ELSE /\ outgoing_connections' = disconnect_outgoing(outgoing_connections, tCons[t])
            /\ lossSeen' = [lossSeen EXCEPT ![t] = TRUE]
            /\ UNCHANGED streamed
    /\ UNCHANGED <<phase, pc, tDev, tCons, resp, sock, linkUp, disconnects, stopReq,
                   protoBuffer, active_connections, active_captures, capState,
                   origMode, devMode, devEnabled, toolsOk, relative_mode, timers,
                   server_socket, mdns, discovery, cleanups, lastCleanup, serverVars,
                   notHost>>

\* The consumer end goes away (killed, network lost) after the handshake; before
\* it, the loss is the eof or timeout answer of RecvResponse.
LinkBreak(t) ==
    /\ phase # "exited"
    /\ sock[t] = "open"
    /\ pc[t] \notin {"await", "unpack"}
    /\ linkUp[t]
    /\ linkUp' = [linkUp EXCEPT ![t] = FALSE]
    /\ UNCHANGED <<phase, pc, tDev, tCons, resp, sock, disconnects, streamed, stopReq,
                   lossSeen, protoBuffer, active_connections, outgoing_connections,
                   active_captures, capState, origMode, devMode, devEnabled, toolsOk,
                   relative_mode, timers, server_socket, mdns, discovery, cleanups,
                   lastCleanup, serverVars, notHost>>

\* The user clicks the menu item of the outgoing connection to consumer c:
\* _disconnect_outgoing(c).
UserDisconnect(c) ==
    /\ phase = "running"
    /\ outgoing_connections[c] # "none"
    /\ pc[outgoing_connections[c]] = "streaming"
    /\ stopReq' = [stopReq EXCEPT ![outgoing_connections[c]] = TRUE]
    /\ outgoing_connections' = disconnect_outgoing(outgoing_connections, c)
    /\ UNCHANGED <<phase, pc, tDev, tCons, resp, sock, linkUp, disconnects, streamed,
                   lossSeen, protoBuffer, active_connections, active_captures,
                   capState, origMode, devMode, devEnabled, toolsOk, relative_mode,
                   timers, server_socket, mdns, discovery, cleanups, lastCleanup,
                   serverVars, notHost>>

\* One call of _cleanup_resources(full_shutdown) by the main thread.
CleanupCall(full_shutdown) ==
    /\ phase # "exited"
    /\ cleanups < MaxCleanups
    /\ LET h == cleanup_resources(HostState, full_shutdown) IN
        /\ capState' = h.capState
        /\ active_captures' = h.active_captures
        /\ devMode' = h.devMode
        /\ devEnabled' = h.devEnabled
        /\ sock' = h.sock
        /\ disconnects' = h.disconnects
        /\ active_connections' = h.active_connections
        /\ outgoing_connections' = h.outgoing_connections
        /\ timers' = h.timers
        /\ server_socket' = h.server_socket
        /\ mdns' = h.mdns
        /\ discovery' = h.discovery
        /\ virtual_devices' = h.virtual_devices
        /\ incoming_connections' = h.incoming_connections
        /\ lastCleanup' = [log |-> h.log, cmds |-> h.cmds, disc |-> h.disc]
    /\ cleanups' = cleanups + 1
    /\ phase' = "cleaned"
    /\ UNCHANGED <<pc, tDev, tCons, resp, linkUp, streamed, stopReq, lossSeen, protoBuffer,
                   origMode, toolsOk, relative_mode>>
    /\ UNCHANGED <<inPc, inNet, peerSent, peerClosed, inMsgs, handshake_done, inHostName,
                   inSock, authReply, userAnswer, incoming_sockets, uinputOk, injected>>
    /\ UNCHANGED <<authSent, hsLacks, gotDisconnect, inError, revoked>>
    /\ UNCHANGED notHost

\* _quit, from the menu or from signal_handler (SIGINT, SIGTERM).
Quit == CleanupCall(TRUE)

\* _emergency_cleanup, from the except branch of main.
EmergencyCleanup == CleanupCall(FALSE)

\* The process ends: the icon loop has stopped after _quit, or main calls
\* sys.exit(1) after _emergency_cleanup.  The daemon threads end with it and
\* the memory of the process is gone; what stays is the state of the tablet
\* (mode, local input) and what the run left on the network.
Exit ==
    /\ phase = "cleaned"
    /\ phase' = "exited"
    /\ pc' = [t \in Threads |-> "idle"]
    /\ tDev' = [t \in Threads |-> "none"]
    /\ tCons' = [t \in Threads |-> "none"]
    /\ resp' = [t \in Threads |-> "none"]
    /\ sock' = [t \in Threads |-> "none"]
    /\ linkUp' = [t \in Threads |-> TRUE]
    /\ disconnects' = [t \in Threads |-> 0]
    /\ streamed' = [t \in Threads |-> FALSE]
    /\ stopReq' = [t \in Threads |-> FALSE]
    /\ lossSeen' = [t \in Threads |-> FALSE]
    /\ protoBuffer' = <<>>
    /\ active_connections' = {}
    /\ outgoing_connections' = [c \in Consumers |-> "none"]
    /\ active_captures' = [p \in CapPaths |-> "none"]
    /\ capState' = [t \in Threads |-> "none"]
    /\ origMode' = [t \in Threads |-> "None"]
    /\ lastCleanup' = NoCleanup
    /\ UNCHANGED <<devMode, devEnabled, toolsOk, relative_mode, timers, server_socket,
                   mdns, discovery, cleanups, serverVars, notHost>>

Next ==
    \/ \E t \in Threads : StartConnect(t)
    \/ \E t \in Threads : RecvResponse(t)
    \/ \E t \in Threads : UnpackResponse(t)
    \/ \E t \in Threads : RegisterOutgoing(t)
    \/ \E t \in Threads : CaptureCheck(t)
    \/ \E t \in Threads : CaptureStart(t)
    \/ \E t \in Threads : CaptureRegister(t)
    \/ \E t \in Threads : CaptureEvent(t)
    \/ \E t \in Threads : LinkBreak(t)
    \/ \E c \in Consumers : UserDisconnect(c)
    \/ Quit
    \/ EmergencyCleanup
    \/ Exit

Init == HostInit

Spec == Init /\ [][Next]_vars

(***************************************************************************)
(* Discovery: the browse callbacks (on_consumer_discovered of the tray     *)
(* application, on_discovery of TransWacomUnified in transwacom.py), the   *)
(* stale sweep check_stale_consumers and the menu built from the table.    *)
(***************************************************************************)
DISCOVERY_UPDATE_INTERVAL == 30

\* stale_timeout = DISCOVERY_UPDATE_INTERVAL * 2.5
StaleTimeout == (DISCOVERY_UPDATE_INTERVAL * 5) \div 2

\* DiscoveredConsumer.unique_id
unique_id(c) == <<c.address, c.port>>

\* What publish_consumer_service registers: the mDNS name, the port and the
\* local address.
OwnService == [name |-> MyName, address |-> ownAddress, port |-> MyPort]

\* The services of another machine of the network.
OtherServices == [name : MdnsNames, address : {"192.168.0.3"}, port : Ports]

Services == {OwnService} \cup OtherServices

\* now - data.get('timestamp', 0) > stale_timeout
IsStale(entry, now) == now - entry.timestamp > StaleTimeout

DiscInit ==
    /\ FramingIdle
    /\ CaptureIdle
    /\ TrustIdle
    /\ ServerIdle
    /\ HostIdle
    /\ EmuIdle
    /\ WcIdle
    /\ VdIdle
    /\ LateIdle
    /\ dNow = 0
    /\ ownAddress \in {"127.0.0.1", "192.168.0.2"}
    /\ discovered_consumers = [k \in UniqueIds |-> NoConsumer]
    /\ cli_discovered = [k \in UniqueIds |-> NoConsumer]
    /\ staleDue = DISCOVERY_UPDATE_INTERVAL
    /\ menu = {}

\* consumer.name == my_mdns_name and consumer.port == self.port
is_self(c) == c.name = MyName /\ c.port = MyPort

\* on_consumer_discovered(consumer), for add_service and (patched)
\* update_service: the own record is ignored, any other one is stored with
\* the current time.
TrayDiscovered(c) ==
    /\ ~is_self(c)
    /\ discovered_consumers' = [discovered_consumers EXCEPT ![unique_id(c)] =
           [present |-> TRUE, name |-> c.name, port |-> c.port, timestamp |-> dNow]]
    /\ UNCHANGED <<dNow, ownAddress, cli_discovered, staleDue, menu, notDisc>>

\* on_discovery(consumer) of TransWacomUnified._start_discovery: a record on
\* the loopback address with the own port is ignored, any other one is stored.
CliDiscovered(c) ==
    /\ ~(c.address = "127.0.0.1" /\ c.port = MyPort)
    /\ cli_discovered' = [cli_discovered EXCEPT ![unique_id(c)] =
           [present |-> TRUE, name |-> c.name, port |-> c.port, timestamp |-> 0]]
    /\ UNCHANGED <<dNow, ownAddress, discovered_consumers, staleDue, menu, notDisc>>

\* check_stale_consumers, run by _stale_check_timer: the entries that are
\* stale are deleted and the timer is started again.
CheckStale ==
    /\ dNow >= staleDue
    /\ discovered_consumers' = [k \in UniqueIds |->
           IF discovered_consumers[k].present /\ IsStale(discovered_consumers[k], dNow)
           THEN NoConsumer ELSE discovered_consumers[k]]
    /\ staleDue' = dNow + DISCOVERY_UPDATE_INTERVAL
    /\ UNCHANGED <<dNow, ownAddress, cli_discovered, menu, notDisc>>

\* _update_menu -> _create_menu -> _create_menu_device_items: one item for
\* every entry of discovered_consumers.  (Recorded with it: whether the entry
\* was stale when the menu was built.)
BuildMenu ==
    /\ menu' = {[unique_id |-> k, name |-> discovered_consumers[k].name,
                 stale |-> IsStale(discovered_consumers[k], dNow)] :
                    k \in {u \in UniqueIds : discovered_consumers[u].present}}
    /\ menu' # menu
    /\ UNCHANGED <<dNow, ownAddress, discovered_consumers, cli_discovered, staleDue,
                   notDisc>>

\* Time passes; the timer fires when it is due.
DiscTick ==
    /\ dNow < staleDue
    /\ dNow + TickS <= MaxDiscTime
    /\ dNow' = dNow + TickS
    /\ UNCHANGED <<ownAddress, discovered_consumers, cli_discovered, staleDue, menu,
                   notDisc>>

DiscNext ==
    \/ \E c \in Services : TrayDiscovered(c)
    \/ \E c \in Services : CliDiscovered(c)
    \/ CheckStale
    \/ BuildMenu
    \/ DiscTick

SpecDiscovery == DiscInit /\ [][DiscNext]_vars

\* C13: no table of discovered peers holds the peer's own advertised service
\* (its own name on its own port, at its own address).
SelfNeverDiscovered ==
    /\ \A k \in UniqueIds :
          discovered_consumers[k].present =>
              ~(discovered_consumers[k].name = MyName
                /\ discovered_consumers[k].port = MyPort)
    /\ ~(cli_discovered[unique_id(OwnService)].present
         /\ cli_discovered[unique_id(OwnService)].name = MyName)

\* C14: no menu built lists a consumer whose last refresh was more than 2.5
\* discovery intervals old when the menu was built.
StalePeerNotInMenu == \A item \in menu : ~item.stale


(***************************************************************************)
(* Device emulation: the event callback of the consumer server hands each  *)
(* received batch to DeviceEmulationManager.process_events, which lets the *)
(* virtual tablet write it.  Every inbound session runs the callback in    *)
(* its own reader thread and all of them share the one 'wacom' device, so  *)
(* the steps of two sessions interleave.  The device exists (it is created *)
(* on the first batch).                                                    *)
(***************************************************************************)
\* Code strings a host puts on the wire (_event_code_to_string): names of
\* evdev.ecodes, "ABS_<n>" for a number without a name, and
\* "TYPE_<t>_CODE_<c>" for the event types it does not name.
Codes == {"ABS_X", "SYN_REPORT", "ABS_99", "TYPE_4_CODE_0"}

\* The attributes of evdev.ecodes among Codes.
Ecodes == {"ABS_X", "SYN_REPORT"}

\* code_str.startswith(...) of _parse_event_code
CodePrefix(code) ==
    CASE code \in {"ABS_X", "ABS_99"} -> "ABS_"
      [] code = "SYN_REPORT" -> "SYN_"
      [] OTHER -> "TYPE_"

NoCode == [type |-> "None", code |-> "None"]

parse_any_code(code) == [type |-> "EV_ABS", code |-> code]

\* WacomVirtualDevice._parse_event_code
parse_event_code(code) ==
    LET event_type == CASE CodePrefix(code) = "ABS_" -> "EV_ABS"
                        [] CodePrefix(code) \in {"KEY_", "BTN_"} -> "EV_KEY"
                        [] CodePrefix(code) = "REL_" -> "EV_REL"
                        [] CodePrefix(code) = "SYN_" -> "EV_SYN"
                        [] OTHER -> "None"
    IN  IF event_type = "None" THEN NoCode
        ELSE IF code \notin Ecodes THEN NoCode
        ELSE [type |-> event_type, code |-> code]

\* The batches of at most n events.
EventBatches(n) == UNION {[1..k -> Codes] : k \in 0..n}

\* The device operations a list of batches can ask for: one per event and
\* one sync per batch.
RECURSIVE OpsOf(_)
OpsOf(batches) ==
    IF batches = <<>> THEN 0 ELSE Len(Head(batches)) + 1 + OpsOf(Tail(batches))

RECURSIVE OpsOfAll(_)
OpsOfAll(S) ==
    IF S = {} THEN 0
    ELSE LET s == CHOOSE x \in S : TRUE IN OpsOf(emuSent[s]) + OpsOfAll(S \ {s})

EmuInit ==
    /\ FramingIdle
    /\ CaptureIdle
    /\ TrustIdle
    /\ ServerIdle
    /\ HostIdle
    /\ DiscIdle
    /\ WcIdle
    /\ VdIdle
    /\ LateIdle
    /\ emuSent = [s \in Sessions |-> <<>>]
    /\ emuCur = [s \in Sessions |-> <<>>]
    /\ emuPc = [s \in Sessions |-> "recv"]
    /\ devLog = <<>>

\* handle_client got an event message of session s and calls
\* event_callback(device_type, events): VirtualDevice.process_events starts
\* its loop over the batch.
EmuReceive(s, events) ==
    /\ emuPc[s] = "recv"
    /\ OpsOfAll(Sessions) + Len(events) + 1 <= MaxEmuOps
    /\ emuSent' = [emuSent EXCEPT ![s] = Append(@, events)]
    /\ emuCur' = [emuCur EXCEPT ![s] = events]
    /\ emuPc' = [emuPc EXCEPT ![s] = IF events = <<>> THEN "sync" ELSE "events"]
    /\ UNCHANGED <<devLog, notEmu>>

after_event_always_sync(rest) == "sync"

\* The for loop of process_events: on to the next event, or to the sync
\* after the last one.
after_event(rest) == IF rest = <<>> THEN "sync" ELSE "events"

\* One turn of the loop of process_events: the code is parsed, a parsed
\* event is written (write_event), any other one is skipped with a warning.
EmuEvent(s) ==
    /\ emuPc[s] = "events"
    /\ emuCur[s] # <<>>
    /\ LET parsed == parse_event_code(Head(emuCur[s]))
       IN  devLog' = IF parsed.type # "None" /\ parsed.code # "None"
                     THEN Append(devLog, [session |-> s, op |-> "write",
                                          type |-> parsed.type, code |-> parsed.code])
                     ELSE devLog
    /\ emuCur' = [emuCur EXCEPT ![s] = Tail(@)]
    /\ emuPc' = [emuPc EXCEPT ![s] = after_event(Tail(emuCur[s]))]
    /\ UNCHANGED <<emuSent, notEmu>>

\* self.sync() after the loop: uinput.syn(); the callback returns and the
\* reader goes on receiving.
EmuSync(s) ==
    /\ emuPc[s] = "sync"
    /\ devLog' = Append(devLog, [session |-> s, op |-> "syn",
                                 type |-> "EV_SYN", code |-> "SYN_REPORT"])
    /\ emuCur' = [emuCur EXCEPT ![s] = <<>>]
    /\ emuPc' = [emuPc EXCEPT ![s] = "recv"]
    /\ UNCHANGED <<emuSent, notEmu>>

EmuNext ==
    \/ \E s \in Sessions, events \in EventBatches(MaxEmuBatchLen) : EmuReceive(s, events)
    \/ \E s \in Sessions : EmuEvent(s)
    \/ \E s \in Sessions : EmuSync(s)

SpecEmulation == EmuInit /\ [][EmuNext]_vars

\* What the device was asked to do for session s, in order: "syn" for a sync
\* pulse of sync(), the code string for a written event.
RECURSIVE SessionOps(_, _)
SessionOps(log, s) ==
    IF log = <<>> THEN <<>>
    ELSE LET r == Head(log)
         IN  (IF r.session = s
              THEN <<IF r.op = "syn" THEN "syn" ELSE r.code>>
              ELSE <<>>) \o SessionOps(Tail(log), s)

KnownCode(code) == code \in {"ABS_X", "SYN_REPORT"}

KnownOf(events) == SelectSeq(events, KnownCode)

\* The known-code events of each batch in the order sent, each batch followed
\* by one sync pulse.
RECURSIVE ExpectedOps(_)
ExpectedOps(batches) ==
    IF batches = <<>> THEN <<>>
    ELSE KnownOf(Head(batches)) \o <<"syn">> \o ExpectedOps(Tail(batches))

IsPrefixOf(a, b) == Len(a) <= Len(b) /\ a = SubSeq(b, 1, Len(a))

\* C17: for each inbound session, what is written to the virtual device is
\* the known-code events in the order the host sent them, and each received
\* batch is followed by exactly one sync pulse, after all of its writes.
InboundOrderAndOneSyncPerBatch ==
    \A s \in Sessions :
        /\ IsPrefixOf(SessionOps(devLog, s), ExpectedOps(emuSent[s]))
        /\ emuPc[s] = "recv" => SessionOps(devLog, s) = ExpectedOps(emuSent[s])

InboundOrderWitness ==
    \E s \in Sessions :
        /\ emuPc[s] = "recv"
        /\ Len(emuSent[s]) = 2
        /\ emuSent[s][1] = <<"ABS_X", "SYN_REPORT">>
        /\ SessionOps(devLog, s) = <<"ABS_X", "SYN_REPORT", "syn">> \o
                                    KnownOf(emuSent[s][2]) \o <<"syn">>

\* The writes of each batch of a session: the session's operations cut at
\* the sync pulses.
RECURSIVE Segments(_, _)
Segments(ops, cur) ==
    IF ops = <<>> THEN <<>>
    ELSE IF Head(ops) = "syn" THEN <<cur>> \o Segments(Tail(ops), <<>>)
    ELSE Segments(Tail(ops), Append(cur, Head(ops)))

HasUnknown(events) == \E i \in 1..Len(events) : ~KnownCode(events[i])

\* C18: of a batch holding an event with an unknown code, that event is not
\* written, the other events are written in order, the sync pulse is still
\* emitted, and the session goes on receiving.
UnknownCodeSkipped ==
    /\ \A i \in 1..Len(devLog) : devLog[i].op = "write" => KnownCode(devLog[i].code)
    /\ \A s \in Sessions :
          /\ emuPc[s] \in {"recv", "events", "sync"}
          /\ emuPc[s] = "recv" =>
                LET segs == Segments(SessionOps(devLog, s), <<>>)
                IN  /\ Len(segs) = Len(emuSent[s])
                    /\ \A k \in 1..Len(emuSent[s]) :
                          HasUnknown(emuSent[s][k]) => segs[k] = KnownOf(emuSent[s][k])

UnknownCodeSkippedWitness ==
    \E s \in Sessions :
        /\ emuPc[s] = "recv"
        /\ Len(emuSent[s]) = 2
        /\ emuSent[s][1] = <<"ABS_99", "ABS_X">>
        /\ SessionOps(devLog, s) = <<"ABS_X", "syn">> \o
                                    KnownOf(emuSent[s][2]) \o <<"syn">>


(***************************************************************************)
(* One capture and its tablet controller: HostInputManager.start_capture   *)
(* with InputCapture.start, HostInputManager.stop_capture with             *)
(* InputCapture.stop and WacomController.cleanup.  A controller command is *)
(* a run of xsetwacom or xinput; each may fail.                            *)
(***************************************************************************)
Cmd(name, ok) == [cmd |-> name, ok |-> ok]

\* WacomController.get_device_id: the cached id, else what the tools find.
get_device_id(id, found) == IF id # "None" THEN id ELSE IF found THEN "id" ELSE "None"

\* The controller of a capture: its fields, the tablet it drives and the
\* commands it has run.
Controller ==
    [device_id |-> device_id, original_mode |-> original_mode,
     was_enabled |-> was_enabled, tabMode |-> tabMode, tabEnabled |-> tabEnabled,
     log |-> <<>>]

\* One of set_relative_mode, disable_local_input, enable_local_input,
\* restore_absolute_mode: without a device id nothing is run; else the
\* command is run and, when it succeeds, its effect is recorded.
RunCommand(c, name, found, ok) ==
    LET id == get_device_id(c.device_id, found) IN
    IF id = "None" THEN c
    ELSE LET d == [c EXCEPT !.device_id = id, !.log = Append(@, Cmd(name, ok))] IN
         IF ~ok THEN d
         ELSE CASE name = "set_relative" ->
                       [d EXCEPT !.tabMode = "Relative", !.original_mode = "Absolute"]
                [] name = "disable" ->
                       [d EXCEPT !.tabEnabled = FALSE, !.was_enabled = TRUE]
                [] name = "enable" -> [d EXCEPT !.tabEnabled = TRUE]
                [] OTHER -> [d EXCEPT !.tabMode = c.original_mode]

RECURSIVE RunCommands(_, _, _, _)
RunCommands(c, names, found, oks) ==
    IF names = <<>> THEN c
    ELSE RunCommands(RunCommand(c, Head(names), found, oks[Head(names)]),
                     Tail(names), found, oks)

\* InputCapture.start: if relative_mode: set_relative_mode(); if
\* disable_local: disable_local_input()
start_steps(relative_mode_arg, disable_local) ==
    (IF relative_mode_arg THEN <<"set_relative">> ELSE <<>>)
    \o (IF disable_local THEN <<"disable">> ELSE <<>>)

cleanup_steps_mode_first(enabled_before, mode_before) ==
    (IF mode_before # "None" THEN <<"restore">> ELSE <<>>)
    \o (IF enabled_before THEN <<"enable">> ELSE <<>>)

\* WacomController.cleanup: if self.was_enabled: enable_local_input(); if
\* self.original_mode: restore_absolute_mode()
cleanup_steps(enabled_before, mode_before) ==
    (IF enabled_before THEN <<"enable">> ELSE <<>>)
    \o (IF mode_before # "None" THEN <<"restore">> ELSE <<>>)

Results(names) == [names -> BOOLEAN]

WcInit ==
    /\ FramingIdle
    /\ CaptureIdle
    /\ TrustIdle
    /\ ServerIdle
    /\ HostIdle
    /\ DiscIdle
    /\ EmuIdle
    /\ VdIdle
    /\ LateIdle
    /\ wcPc = "new"
    /\ wcIsWacom \in BOOLEAN
    /\ tabMode \in {"Absolute", "Relative"}
    /\ tabEnabled \in BOOLEAN
    /\ priorMode = tabMode
    /\ priorEnabled = tabEnabled
    /\ argRelative \in BOOLEAN
    /\ argDisable \in BOOLEAN
    /\ device_id = "None"
    /\ original_mode = "None"
    /\ was_enabled = TRUE
    /\ startLog = <<>>
    /\ stopLog = <<>>
    /\ wcHandle = "none"
    /\ inActive = FALSE
    /\ lastStop = NoStop

\* HostInputManager.start_capture: InputCapture(path).start(...) opens the
\* device (a failed open returns False), configures a tablet, starts the
\* capture thread; the capture is then stored in active_captures.
ManagerStartCapture(opened, found, oks) ==
    /\ wcPc = "new"
    /\ ~inActive
    /\ IF ~opened
       THEN /\ wcPc' = "failed"
            /\ UNCHANGED <<tabMode, tabEnabled, device_id, original_mode, was_enabled,
                           startLog, wcHandle, inActive>>
       ELSE LET c == IF wcIsWacom
                     THEN RunCommands(Controller, start_steps(argRelative, argDisable),
                                      found, oks)
                     ELSE Controller
            IN  /\ wcPc' = "running"
                /\ wcHandle' = "open"
                /\ tabMode' = c.tabMode
                /\ tabEnabled' = c.tabEnabled
                /\ device_id' = c.device_id
                /\ original_mode' = c.original_mode
                /\ was_enabled' = c.was_enabled
                /\ startLog' = c.log
                /\ inActive' = TRUE
    /\ UNCHANGED <<wcIsWacom, priorMode, priorEnabled, argRelative, argDisable, stopLog,
                   lastStop, notWc>>

\* HostInputManager.stop_capture, called by the thread caller: InputCapture.stop
\* sets running = False and joins the capture thread; Thread.join raises
\* RuntimeError when the caller is the capture thread itself, and the
\* exception leaves stop and stop_capture at once.  Otherwise the controller
\* cleanup runs, the device is closed and the entry is deleted.
ManagerStopCapture(caller, found, oks) ==
    /\ inActive
    /\ wcPc \in {"running", "aborted"}
    /\ caller = "capture" => wcPc = "running"
    /\ IF caller = "capture"
       THEN /\ wcPc' = "aborted"
            /\ lastStop' = [called |-> TRUE, caller |-> caller, cleaned |-> FALSE,
                            closed |-> FALSE]
            /\ UNCHANGED <<tabMode, tabEnabled, device_id, original_mode, was_enabled,
                           stopLog, wcHandle, inActive>>
       ELSE LET c == IF wcIsWacom
                     THEN RunCommands(Controller,
                                      cleanup_steps(was_enabled, original_mode),
                                      found, oks)
                     ELSE Controller
            IN  /\ wcPc' = "stopped"
                /\ tabMode' = c.tabMode
                /\ tabEnabled' = c.tabEnabled
                /\ device_id' = c.device_id
                /\ original_mode' = c.original_mode
                /\ was_enabled' = c.was_enabled
                /\ stopLog' = Append(c.log, Cmd("close", TRUE))
                /\ wcHandle' = "closed"
                /\ inActive' = FALSE
                /\ lastStop' = [called |-> TRUE, caller |-> caller, cleaned |-> TRUE,
                                closed |-> TRUE]
    /\ UNCHANGED <<wcIsWacom, priorMode, priorEnabled, argRelative, argDisable, startLog,
                   notWc>>

WcNext ==
    \/ \E opened, found \in BOOLEAN, oks \in Results({"set_relative", "disable"}) :
          ManagerStartCapture(opened, found, oks)
    \/ \E caller \in {"capture", "main"}, found \in BOOLEAN,
          oks \in Results({"enable", "restore"}) :
          ManagerStopCapture(caller, found, oks)

SpecController == WcInit /\ [][WcNext]_vars

\* C25: every invocation of stop, also one made from the capture thread
\* itself, runs the controller cleanup and closes the device handle, and
\* afterwards the path is no longer in active_captures.
StopAlwaysCleansUp ==
    lastStop.called => lastStop.cleaned /\ lastStop.closed /\ ~inActive

AllOk(log) == \A i \in 1..Len(log) : log[i].ok

\* The start and the stop ran every command they had to, with success.
AllCommandsSucceeded ==
    /\ Len(startLog) = Len(start_steps(argRelative, argDisable))
    /\ AllOk(startLog)
    /\ Len(stopLog) >= 2
    /\ AllOk(stopLog)

\* C26: for a tablet, after start then stop with every controller command
\* succeeding, the mode and the local delivery are what they were before
\* start, whatever they were and whatever the two flags.
StartStopRestoresTablet ==
    wcPc = "stopped" /\ wcIsWacom /\ AllCommandsSucceeded
        => tabMode = priorMode /\ tabEnabled = priorEnabled

\* Position of the command name in a log, 0 when it was not run.
PosOf(log, name) ==
    IF \E i \in 1..Len(log) : log[i].cmd = name
    THEN CHOOSE i \in 1..Len(log) : log[i].cmd = name
    ELSE 0

\* C27: cleanup attempts the restorations in the reverse order of the
\* mutations of start (mode then disable; enable then mode), and a failed
\* re-enable prevents neither the attempt to restore the mode nor the close of
\* the device handle.
CleanupReverseOrderAndIndependent ==
    wcPc = "stopped" /\ wcIsWacom =>
        /\ PosOf(startLog, "set_relative") # 0 /\ PosOf(startLog, "disable") # 0
              => PosOf(startLog, "set_relative") < PosOf(startLog, "disable")
        /\ PosOf(stopLog, "enable") # 0 /\ PosOf(stopLog, "restore") # 0
              => PosOf(stopLog, "enable") < PosOf(stopLog, "restore")
        /\ PosOf(startLog, "disable") # 0 => PosOf(stopLog, "enable") # 0
        /\ (PosOf(startLog, "set_relative") # 0
            /\ startLog[PosOf(startLog, "set_relative")].ok)
              => PosOf(stopLog, "restore") # 0
        /\ stopLog[Len(stopLog)].cmd = "close"
        /\ wcHandle = "closed"

CleanupReverseOrderWitness ==
    /\ wcPc = "stopped"
    /\ wcIsWacom
    /\ startLog = <<Cmd("set_relative", TRUE), Cmd("disable", TRUE)>>
    /\ stopLog = <<Cmd("enable", FALSE), Cmd("restore", TRUE), Cmd("close", TRUE)>>
    /\ tabMode = "Absolute"
    /\ ~tabEnabled


(***************************************************************************)
(* The inbound side with messages that are not well formed, and with the   *)
(* user disconnecting an inbound host from the menu.  Same reader as       *)
(* SpecServer; the peers also send handshakes and events that lack         *)
(* required keys, a message of an unknown type and a JSON value that is    *)
(* not an object.                                                          *)
(***************************************************************************)
\* A handshake without the keys of lacks (handshake.get(key, default) then
\* yields the default; the host_id default is '').
HandshakeLacking(n, id, keys) ==
    [device_type |-> "none", host_id |-> id,
     host_name |-> n, type |-> "handshake", lacks |-> keys]

\* An event message without the keys of lacks: message.get('device_type') is
\* None, message.get('events', []) is [].
EventLacking(keys) ==
    [device_type |-> IF "device_type" \in keys THEN "None" ELSE "wacom",
     host_id |-> "None", host_name |-> "None", type |-> "event", lacks |-> keys]

UnknownTypeMsg == [device_type |-> "none", host_id |-> "None", host_name |-> "None",
                   type |-> "ping", lacks |-> {}]

\* A line whose JSON value is a number, a string or a list.
NotAnObject == [device_type |-> "none", host_id |-> "None", host_name |-> "None",
                type |-> "not_an_object", lacks |-> {}]

\* What the peer of i1 can send: well-formed messages and the malformed ones.
MalformedPeerMsgs ==
    {Handshake("H1", "id1"),
     HandshakeLacking("H1", "id1", {"devices", "version"}),
     HandshakeLacking("H2", "", {"host_id"}),
     EventMsg("wacom"), EventLacking({"device_type"}), EventLacking({"events"}),
     UnknownTypeMsg, NotAnObject, DisconnectMsg}

InboundMsgs(i) ==
    IF i = "i1" THEN MalformedPeerMsgs ELSE {Handshake("H2", "id2"), EventMsg("wacom")}

InboundPeerSend(i) == PeerSendFrom(i, InboundMsgs(i))

\* A message whose type is none of handshake, event, disconnect: no branch
\* of the if/elif chain takes it.
InIgnore(i) ==
    /\ inPc[i] = "loop"
    /\ inMsgs[i] # <<>>
    /\ Head(inMsgs[i]).type \notin {"handshake", "event", "disconnect", "not_an_object"}
    /\ inMsgs' = [inMsgs EXCEPT ![i] = Tail(@)]
    /\ UNCHANGED <<inPc, inNet, peerSent, peerClosed, handshake_done, inHostName,
                   inSock, authReply, userAnswer, incoming_sockets, incoming_connections,
                   virtual_devices, uinputOk, injected, trustVars, notServer>>
    /\ UNCHANGED <<authSent, hsLacks, gotDisconnect, inError, revoked>>

\* message.get('type') on a value that is not a dict raises AttributeError:
\* except Exception prints it and the finally block closes the socket.
InRaise(i) ==
    /\ inPc[i] = "loop"
    /\ inMsgs[i] # <<>>
    /\ Head(inMsgs[i]).type = "not_an_object"
    /\ ReaderExit(i)
    /\ inError' = [inError EXCEPT ![i] = "AttributeError"]
    /\ UNCHANGED <<inNet, peerSent, peerClosed, handshake_done, inHostName,
                   authReply, userAnswer, incoming_connections,
                   virtual_devices, uinputOk, injected, trustVars, notServer>>
    /\ UNCHANGED <<authSent, hsLacks, gotDisconnect, revoked>>

\* The sockets handle_client registered under host name h that are open.
OpenSocketsOf(h) ==
    {i \in Conns : InSeq(incoming_sockets[h], i) /\ inSock[i] = "open"}

\* TransWacomTrayApp._disconnect_incoming(h), the menu item of an inbound
\* host: h leaves incoming_connections; the socket is then looked for in
\* network.active_connections, the table of the outbound connections, which
\* holds nothing for an inbound host (warning).  incoming_sockets and the
\* sockets in it are not touched.
DisconnectIncoming(h) ==
    /\ InSeq(incoming_connections, h)
    /\ incoming_connections' = RemoveFirst(incoming_connections, h)
    /\ revoked' = revoked \cup {[host |-> h, conn |-> i] : i \in OpenSocketsOf(h)}
    /\ UNCHANGED <<inPc, inNet, peerSent, peerClosed, inMsgs, handshake_done, inHostName,
                   inSock, authReply, userAnswer, incoming_sockets,
                   virtual_devices, uinputOk, injected, trustVars, notServer>>
    /\ UNCHANGED <<authSent, hsLacks, gotDisconnect, inError>>

InboundNext ==
    \/ \E i \in Conns : InboundPeerSend(i)
    \/ \E i \in Conns : PeerClose(i)
    \/ \E i \in Conns : InRecv(i)
    \/ \E i \in Conns : InLoopEnd(i)
    \/ \E i \in Conns : InHandshake(i)
    \/ \E i \in Conns : InEvent(i)
    \/ \E i \in Conns : InDisconnect(i)
    \/ \E i \in Conns : InIgnore(i)
    \/ \E i \in Conns : InRaise(i)
    \/ \E h \in Names : DisconnectIncoming(h)

SpecInbound == ServerInit /\ [][InboundNext]_vars

Registered(i) == \E n \in Names : InSeq(incoming_sockets[n], i)

\* C21: a handshake that lacks a required field is discarded and ends the
\* session: it is not accepted, no accepted auth_response is sent, and the
\* socket is closed without being registered.
IncompleteHandshakeTerminates ==
    \A i \in Conns :
        hsLacks[i] # {} =>
            /\ authReply[i] # "accepted"
            /\ ~authSent[i].accepted
            /\ inSock[i] = "closed"
            /\ ~Registered(i)

\* C22: the auth_response of an accepted handshake carries as consumer_id
\* the consumer's machine fingerprint (ConfigManager.machine_id).
AuthResponseCarriesMachineId ==
    \A i \in Conns :
        authSent[i].accepted => authSent[i].consumer_id = machine_id

\* C23: when the user revokes inbound host h, every open socket registered
\* under h is closed and leaves the registry.
RevocationTearsDownSessions ==
    \A r \in revoked :
        /\ inSock[r.conn] = "closed"
        /\ ~InSeq(incoming_sockets[r.host], r.conn)

\* C24: when the virtual device a batch needs cannot be created, the
\* creation is not tried again for a later batch of the session and the
\* session is closed.
CreationFailureClosesSession ==
    \A k \in 1..Len(injected) :
        injected[k].device_type \in SupportedTypes /\ ~injected[k].written =>
            /\ inSock[injected[k].conn] = "closed"
            /\ \A j \in (k + 1)..Len(injected) :
                  injected[j].conn = injected[k].conn => injected[j].written

\* C28: once a streaming session has handled a disconnect message, no later
\* event of the connection is injected, the socket is closed and it has left
\* the registry.
DisconnectEndsSession ==
    /\ \A k \in 1..Len(injected) : ~injected[k].after_disconnect
    /\ \A i \in Conns :
          gotDisconnect[i] /\ handshake_done[i] =>
              inSock[i] = "closed" /\ ~Registered(i)

\* C29: a message that is not a well-formed event or disconnect is skipped:
\* nothing is written, no virtual device is created, no sync pulse is sent,
\* and the session goes on.
MalformedMessageSkipped ==
    /\ \A k \in 1..Len(injected) : injected[k].lacks # {} => ~injected[k].written
    /\ \A i \in Conns : inError[i] = "none"

(***************************************************************************)
(* The authorisation prompt.  on_accept, the action callback of the        *)
(* notification, hands set_accept to GLib.idle_add; set_accept runs in the *)
(* main loop whenever that gets to it, also after event.wait(timeout=30)   *)
(* of auth_callback has returned without an answer.                        *)
(***************************************************************************)
\* set_accept of the prompt shown for the handshake on connection i, run
\* after auth_callback has given up waiting and returned None:
\* user_decision['result'] = host_name; self._add_incoming_connection(host_name).
SetAcceptLate(i) ==
    /\ userAnswer[i] = "timeout"
    /\ userAnswer' = [userAnswer EXCEPT ![i] = "late_accept"]
    /\ incoming_connections' = add_incoming_connection(incoming_connections, inHostName[i])
    /\ UNCHANGED <<inPc, inNet, peerSent, peerClosed, inMsgs, handshake_done, inHostName,
                   inSock, authReply, incoming_sockets, virtual_devices, uinputOk,
                   injected, trustVars, notServer>>
    /\ UNCHANGED <<authSent, hsLacks, gotDisconnect, inError, revoked>>

PromptNext ==
    \/ ServerNext
    \/ \E i \in Conns : SetAcceptLate(i)

SpecPrompt == ServerInit /\ [][PromptNext]_vars

\* C34: a host name enters incoming_connections only in the step that
\* answers a handshake of that name with accepted=true; an accept of the
\* user that arrives after the 30 s wait has expired adds nothing.
OnlyAcceptedHostsListed ==
    [][\A n \in Names :
          InSeq(incoming_connections', n) /\ ~InSeq(incoming_connections, n) =>
              \E i \in Conns :
                  /\ inPc[i] = "loop"
                  /\ inMsgs[i] # <<>>
                  /\ Head(inMsgs[i]).type = "handshake"
                  /\ Head(inMsgs[i]).host_name = n
                  /\ authReply'[i] = "accepted"
                  /\ authSent'[i].accepted]_vars

\* C35: each inbound socket is at most once in incoming_sockets, and after
\* its session has closed it is in no list of the registry, whatever the
\* peer sent, a second handshake on an accepted connection included.
SocketRegisteredAtMostOnce ==
    \A i \in Conns :
        /\ \A n, m \in Names :
              \A k \in DOMAIN incoming_sockets[n], l \in DOMAIN incoming_sockets[m] :
                  incoming_sockets[n][k] = i /\ incoming_sockets[m][l] = i =>
                      n = m /\ k = l
        /\ inPc[i] = "closed" => ~Registered(i)


(***************************************************************************)
(* Creation of the virtual devices.  Each inbound session runs             *)
(* DeviceEmulationManager.process_events in its own reader thread; the     *)
(* manager and its virtual_devices table are shared and no lock guards     *)
(* them, so the statements of two threads interleave.                      *)
(***************************************************************************)
VdInit ==
    /\ FramingIdle
    /\ CaptureIdle
    /\ TrustIdle
    /\ ServerIdle
    /\ HostIdle
    /\ DiscIdle
    /\ EmuIdle
    /\ WcIdle
    /\ LateIdle
    /\ vdPc = [s \in Sessions |-> "idle"]
    /\ vdType = [s \in Sessions |-> "none"]
    /\ vdNew = [s \in Sessions |-> 0]
    /\ vdDev = [s \in Sessions |-> 0]
    /\ vdCount = [s \in Sessions |-> 0]
    /\ vdTable = [t \in DeviceTypes |-> 0]
    /\ uinputs = {}
    /\ vdWritten = {}
    /\ vdNextId = 1

\* handle_client of session s calls event_callback(device_type, events).
VdReceive(s, dt) ==
    /\ vdPc[s] = "idle"
    /\ vdCount[s] < MaxVdBatches
    /\ vdCount' = [vdCount EXCEPT ![s] = @ + 1]
    /\ vdType' = [vdType EXCEPT ![s] = dt]
    /\ vdPc' = [vdPc EXCEPT ![s] = "check"]
    /\ UNCHANGED <<vdNew, vdDev, vdTable, uinputs, vdWritten, vdNextId, notVd>>

\* process_events: if device_type not in self.virtual_devices
VdCheck(s) ==
    /\ vdPc[s] = "check"
    /\ vdPc' = [vdPc EXCEPT ![s] = IF vdTable[vdType[s]] = 0 THEN "create" ELSE "lookup"]
    /\ UNCHANGED <<vdType, vdNew, vdDev, vdCount, vdTable, uinputs, vdWritten, vdNextId,
                   notVd>>

\* create_virtual_device: if device_type in self.virtual_devices: return True
VdCreateCheck(s) ==
    /\ vdPc[s] = "create"
    /\ vdPc' = [vdPc EXCEPT ![s] = IF vdTable[vdType[s]] # 0 THEN "lookup"
                                   ELSE "construct"]
    /\ UNCHANGED <<vdType, vdNew, vdDev, vdCount, vdTable, uinputs, vdWritten, vdNextId,
                   notVd>>

\* device = WacomVirtualDevice(...); device.create(): UInput(...) makes a
\* device, or fails and process_events returns.
VdConstruct(s, ok) ==
    /\ vdPc[s] = "construct"
    /\ IF ok
       THEN /\ uinputs' = uinputs \cup {[type |-> vdType[s], id |-> vdNextId]}
            /\ vdNew' = [vdNew EXCEPT ![s] = vdNextId]
            /\ vdNextId' = vdNextId + 1
            /\ vdPc' = [vdPc EXCEPT ![s] = "register"]
       ELSE /\ vdPc' = [vdPc EXCEPT ![s] = "idle"]
            /\ UNCHANGED <<uinputs, vdNew, vdNextId>>
    /\ UNCHANGED <<vdType, vdDev, vdCount, vdTable, vdWritten, notVd>>

\* self.virtual_devices[device_type] = device; return True
VdRegister(s) ==
    /\ vdPc[s] = "register"
    /\ vdTable' = [vdTable EXCEPT ![vdType[s]] = vdNew[s]]
    /\ vdNew' = [vdNew EXCEPT ![s] = 0]
    /\ vdPc' = [vdPc EXCEPT ![s] = "lookup"]
    /\ UNCHANGED <<vdType, vdDev, vdCount, uinputs, vdWritten, vdNextId, notVd>>

\* device = self.virtual_devices[device_type]
VdLookup(s) ==
    /\ vdPc[s] = "lookup"
    /\ vdDev' = [vdDev EXCEPT ![s] = vdTable[vdType[s]]]
    /\ vdPc' = [vdPc EXCEPT ![s] = "write"]
    /\ UNCHANGED <<vdType, vdNew, vdCount, vdTable, uinputs, vdWritten, vdNextId, notVd>>

\* device.process_events(events)
VdWrite(s) ==
    /\ vdPc[s] = "write"
    /\ vdWritten' = vdWritten \cup {[type |-> vdType[s], id |-> vdDev[s]]}
    /\ vdDev' = [vdDev EXCEPT ![s] = 0]
    /\ vdPc' = [vdPc EXCEPT ![s] = "idle"]
    /\ UNCHANGED <<vdType, vdNew, vdCount, vdTable, uinputs, vdNextId, notVd>>

VdNext ==
    \/ \E s \in Sessions, dt \in DeviceTypes : VdReceive(s, dt)
    \/ \E s \in Sessions : VdCheck(s)
    \/ \E s \in Sessions : VdCreateCheck(s)
    \/ \E s \in Sessions, ok \in BOOLEAN : VdConstruct(s, ok)
    \/ \E s \in Sessions : VdRegister(s)
    \/ \E s \in Sessions : VdLookup(s)
    \/ \E s \in Sessions : VdWrite(s)

SpecDeviceCreation == VdInit /\ [][VdNext]_vars

\* C30: at every moment at most one virtual device exists per device_type,
\* and all the sessions write to that same device, also when several
\* sessions deliver their first batch of the type concurrently.
OneVirtualDevicePerType ==
    \A dt \in DeviceTypes :
        /\ Cardinality({d \in uinputs : d.type = dt}) <= 1
        /\ Cardinality({d \in vdWritten : d.type = dt}) <= 1


(***************************************************************************)
(* Registration of the inbound sockets.  Each accepted socket has its own  *)
(* reader thread running handle_client; the threads share                  *)
(* TransNetwork.incoming_sockets and no lock guards it, so the statements  *)
(* of two threads interleave.  The sessions all present the same host name *)
(* h; incoming_sockets[h] is a reference to a list object.                 *)
(***************************************************************************)
RegInit ==
    /\ EarlyIdle
    /\ TmIdle
    /\ RecIdle
    /\ rgPc = [i \in Conns |-> "idle"]
    /\ rgRef = [i \in Conns |-> 0]
    /\ rgSock = [i \in Conns |-> "open"]
    /\ rgDict = 0
    /\ rgLists = <<>>
    /\ rgNextList = 1

\* auth_callback has accepted the handshake of session i and the
\* auth_response is sent: if accepted_host_name.
RegAccepted(i) ==
    /\ rgPc[i] = "idle"
    /\ rgPc' = [rgPc EXCEPT ![i] = "test"]
    /\ UNCHANGED <<rgRef, rgSock, rgDict, rgLists, rgNextList, notReg>>

\* if final_host_name not in self.incoming_sockets
RegTest(i) ==
    /\ rgPc[i] = "test"
    /\ rgPc' = [rgPc EXCEPT ![i] = IF rgDict = 0 THEN "create" ELSE "subscript"]
    /\ UNCHANGED <<rgRef, rgSock, rgDict, rgLists, rgNextList, notReg>>

\* self.incoming_sockets[final_host_name] = []
RegCreate(i) ==
    /\ rgPc[i] = "create"
    /\ rgLists' = Append(rgLists, <<>>)
    /\ rgDict' = rgNextList
    /\ rgNextList' = rgNextList + 1
    /\ rgPc' = [rgPc EXCEPT ![i] = "subscript"]
    /\ UNCHANGED <<rgRef, rgSock, notReg>>

\* self.incoming_sockets[final_host_name], the receiver of append; a
\* KeyError when the key is gone is caught by except Exception and the
\* finally block follows.
RegSubscript(i) ==
    /\ rgPc[i] = "subscript"
    /\ IF rgDict # 0
       THEN /\ rgRef' = [rgRef EXCEPT ![i] = rgDict]
            /\ rgPc' = [rgPc EXCEPT ![i] = "append"]
       ELSE /\ rgPc' = [rgPc EXCEPT ![i] = "fin_test"]
            /\ UNCHANGED rgRef
    /\ UNCHANGED <<rgSock, rgDict, rgLists, rgNextList, notReg>>

\* .append(client_sock); host_name = final_host_name; handshake_done = True
RegAppend(i) ==
    /\ rgPc[i] = "append"
    /\ rgLists' = [rgLists EXCEPT ![rgRef[i]] = Append(@, i)]
    /\ rgRef' = [rgRef EXCEPT ![i] = 0]
    /\ rgPc' = [rgPc EXCEPT ![i] = "streaming"]
    /\ UNCHANGED <<rgSock, rgDict, rgNextList, notReg>>

\* The peer closes: recv returns b'', break, and the finally block starts
\* with: if host_name and host_name in self.incoming_sockets.
RegPeerCloses(i) ==
    /\ rgPc[i] = "streaming"
    /\ rgPc' = [rgPc EXCEPT ![i] = "fin_test"]
    /\ UNCHANGED <<rgRef, rgSock, rgDict, rgLists, rgNextList, notReg>>

\* if host_name and host_name in self.incoming_sockets; when it is not,
\* client_sock.close() follows at once.
RegFinTest(i) ==
    /\ rgPc[i] = "fin_test"
    /\ IF rgDict # 0
       THEN /\ rgPc' = [rgPc EXCEPT ![i] = "fin_subscript"]
            /\ UNCHANGED rgSock
       ELSE /\ rgPc' = [rgPc EXCEPT ![i] = "closed"]
            /\ rgSock' = [rgSock EXCEPT ![i] = "closed"]
    /\ UNCHANGED <<rgRef, rgDict, rgLists, rgNextList, notReg>>

\* self.incoming_sockets[host_name], the receiver of remove.  A KeyError is
\* not a ValueError: it leaves the finally block before client_sock.close()
\* and ends the thread.
RegFinSubscript(i) ==
    /\ rgPc[i] = "fin_subscript"
    /\ IF rgDict # 0
       THEN /\ rgRef' = [rgRef EXCEPT ![i] = rgDict]
            /\ rgPc' = [rgPc EXCEPT ![i] = "fin_remove"]
       ELSE /\ rgPc' = [rgPc EXCEPT ![i] = "crashed"]
            /\ UNCHANGED rgRef
    /\ UNCHANGED <<rgSock, rgDict, rgLists, rgNextList, notReg>>

\* .remove(client_sock); a ValueError passes and client_sock.close() follows.
RegFinRemove(i) ==
    /\ rgPc[i] = "fin_remove"
    /\ rgRef' = [rgRef EXCEPT ![i] = 0]
    /\ IF InSeq(rgLists[rgRef[i]], i)
       THEN /\ rgLists' = [rgLists EXCEPT ![rgRef[i]] = RemoveFirst(@, i)]
            /\ rgPc' = [rgPc EXCEPT ![i] = "fin_empty"]
            /\ UNCHANGED rgSock
       ELSE /\ rgPc' = [rgPc EXCEPT ![i] = "closed"]
            /\ rgSock' = [rgSock EXCEPT ![i] = "closed"]
            /\ UNCHANGED rgLists
    /\ UNCHANGED <<rgDict, rgNextList, notReg>>

\* if not self.incoming_sockets[host_name]
RegFinEmpty(i) ==
    /\ rgPc[i] = "fin_empty"
    /\ IF rgDict = 0
       THEN /\ rgPc' = [rgPc EXCEPT ![i] = "crashed"]
            /\ UNCHANGED rgSock
       ELSE IF rgLists[rgDict] = <<>>
       THEN /\ rgPc' = [rgPc EXCEPT ![i] = "fin_del"]
            /\ UNCHANGED rgSock
       ELSE /\ rgPc' = [rgPc EXCEPT ![i] = "closed"]
            /\ rgSock' = [rgSock EXCEPT ![i] = "closed"]
    /\ UNCHANGED <<rgRef, rgDict, rgLists, rgNextList, notReg>>

\* del self.incoming_sockets[host_name], then client_sock.close()
RegFinDel(i) ==
    /\ rgPc[i] = "fin_del"
    /\ IF rgDict = 0
       THEN /\ rgPc' = [rgPc EXCEPT ![i] = "crashed"]
            /\ UNCHANGED <<rgSock, rgDict>>
       ELSE /\ rgDict' = 0
            /\ rgPc' = [rgPc EXCEPT ![i] = "closed"]
            /\ rgSock' = [rgSock EXCEPT ![i] = "closed"]
    /\ UNCHANGED <<rgRef, rgLists, rgNextList, notReg>>

RegNext ==
    \/ \E i \in Conns : RegAccepted(i)
    \/ \E i \in Conns : RegTest(i)
    \/ \E i \in Conns : RegCreate(i)
    \/ \E i \in Conns : RegSubscript(i)
    \/ \E i \in Conns : RegAppend(i)
    \/ \E i \in Conns : RegPeerCloses(i)
    \/ \E i \in Conns : RegFinTest(i)
    \/ \E i \in Conns : RegFinSubscript(i)
    \/ \E i \in Conns : RegFinRemove(i)
    \/ \E i \in Conns : RegFinEmpty(i)
    \/ \E i \in Conns : RegFinDel(i)

SpecRegistry == RegInit /\ [][RegNext]_vars

\* C31: every accepted inbound session whose socket is still open has that
\* socket in the list registered under its peer name, in every interleaving
\* of concurrent accepts and closes of sessions with the same peer name.
NoRegistrationLost ==
    \A i \in Conns :
        rgPc[i] = "streaming" => rgDict # 0 /\ InSeq(rgLists[rgDict], i)


(***************************************************************************)
(* The periodic timers of TransWacomTrayApp._start_auto_updates.           *)
(* update_devices and check_stale_consumers each run in the thread of      *)
(* their threading.Timer and start the next Timer in their finally block;  *)
(* _cleanup_resources cancels the Timer objects the attributes refer to.   *)
(* Timer.cancel() stops a timer that is still waiting and does nothing to  *)
(* one whose callback has started.                                         *)
(***************************************************************************)
\* After __init__: _start_auto_updates has called both callbacks once and
\* each has started its first Timer.
TmInit ==
    /\ EarlyIdle
    /\ RegIdle
    /\ RecIdle
    /\ tmState = [k \in TimerKinds |-> "waiting"]
    /\ tmRuns = [k \in TimerKinds |-> 0]
    /\ tmCleanPc = "idle"

\* The interval of timer k has passed: its thread calls the callback.
TimerFires(k) ==
    /\ tmState[k] = "waiting"
    /\ tmRuns[k] < MaxTimerRuns
    /\ tmState' = [tmState EXCEPT ![k] = "running"]
    /\ tmRuns' = [tmRuns EXCEPT ![k] = @ + 1]
    /\ UNCHANGED <<tmCleanPc, notTm>>

\* The finally block of the callback: a new threading.Timer is stored in
\* the attribute and started.
TimerRearms(k) ==
    /\ tmState[k] = "running"
    /\ tmState' = [tmState EXCEPT ![k] = "waiting"]
    /\ UNCHANGED <<tmRuns, tmCleanPc, notTm>>

\* timer.cancel() on the Timer the attribute of k refers to.
cancel(state, k) == IF state[k] = "waiting" THEN [state EXCEPT ![k] = "cancelled"] ELSE state

\* _cleanup_resources starts (from _quit or _emergency_cleanup).
CleanupStarts ==
    /\ tmCleanPc = "idle"
    /\ tmCleanPc' = "cancel_device"
    /\ UNCHANGED <<tmState, tmRuns, notTm>>

\* if self._device_check_timer: self._device_check_timer.cancel()
CancelDeviceTimer ==
    /\ tmCleanPc = "cancel_device"
    /\ tmState' = cancel(tmState, "device")
    /\ tmCleanPc' = "cancel_stale"
    /\ UNCHANGED <<tmRuns, notTm>>

\* if self._stale_check_timer: self._stale_check_timer.cancel(), then the
\* rest of _cleanup_resources, which touches no timer.
CancelStaleTimer ==
    /\ tmCleanPc = "cancel_stale"
    /\ tmState' = cancel(tmState, "stale")
    /\ tmCleanPc' = "done"
    /\ UNCHANGED <<tmRuns, notTm>>

TmNext ==
    \/ \E k \in TimerKinds : TimerFires(k)
    \/ \E k \in TimerKinds : TimerRearms(k)
    \/ CleanupStarts
    \/ CancelDeviceTimer
    \/ CancelStaleTimer

SpecTimers == TmInit /\ [][TmNext]_vars

\* C36: after _cleanup_resources has completed no device-check or
\* stale-check timer is pending, also when a timer callback was running at
\* the moment the timers were cancelled.
NoTimerAfterCleanup ==
    tmCleanPc = "done" => \A k \in TimerKinds : tmState[k] # "waiting"


(***************************************************************************)
(* HostTrayApp (tray_app.py): one outbound session at a time, its          *)
(* liveness monitor and _handle_connection_lost.  The connect thread, the  *)
(* capture thread (event_callback), the monitor timer and the reset timer  *)
(* interleave.                                                             *)
(***************************************************************************)
RecInit ==
    /\ EarlyIdle
    /\ RegIdle
    /\ TmIdle
    /\ rcPc = "idle"
    /\ rcSocket = "none"
    /\ rcActive = FALSE
    /\ rcCapture = "none"
    /\ rcLink = TRUE
    /\ rcMonitor = FALSE
    /\ rcRecovering = FALSE
    /\ rcResetPending = FALSE
    /\ rcLast = "none"
    /\ rcSessions = 0

\* What _handle_connection_lost works on.
RecState ==
    [socket |-> rcSocket, active |-> rcActive, capture |-> rcCapture,
     monitor |-> rcMonitor, recovering |-> rcRecovering, reset |-> rcResetPending]

\* HostTrayApp._handle_connection_lost, called by the capture thread
\* ("capture", from event_callback) or by the monitor timer ("monitor").
\* While _recovering is set nothing is done.  Else the monitor is stopped
\* and the captures are stopped; called by the capture thread,
\* InputCapture.stop has set running = False when capture_thread.join raises
\* RuntimeError, which the except branch answers with _emergency_cleanup,
\* where stop_all_captures raises again: the capture stays registered, the
\* socket open, the session set, and no reset timer is started.
handle_connection_lost(h, caller) ==
    IF h.recovering THEN h
    ELSE IF caller = "capture" /\ h.capture # "none"
    THEN [h EXCEPT !.recovering = TRUE, !.monitor = FALSE, !.capture = "halted"]
    ELSE [h EXCEPT !.recovering = TRUE, !.monitor = FALSE, !.capture = "none",
                   !.socket = "closed", !.active = FALSE, !.reset = TRUE]

\* The loss is detected by caller and _handle_connection_lost runs.
LossDetected(caller) ==
    LET h == handle_connection_lost(RecState, caller) IN
    /\ rcSocket' = h.socket
    /\ rcActive' = h.active
    /\ rcCapture' = h.capture
    /\ rcRecovering' = h.recovering
    /\ rcResetPending' = h.reset
    /\ rcLast' = caller

\* _connect_simple with not self.active_connection, then connect_async up to
\* self.active_socket = connection in _perform_connection.
RcConnect ==
    /\ rcPc = "idle"
    /\ ~rcActive
    /\ rcSessions < MaxSessions
    /\ rcSessions' = rcSessions + 1
    /\ rcSocket' = "open"
    /\ rcLink' = TRUE
    /\ rcLast' = "none"
    /\ rcPc' = "connected"
    /\ UNCHANGED <<rcActive, rcCapture, rcMonitor, rcRecovering, rcResetPending, notRec>>

\* input_manager.start_capture(...): False when the path is still in
\* active_captures; on success _start_connection_monitoring.
RcStartCapture ==
    /\ rcPc = "connected"
    /\ IF rcCapture = "none"
       THEN /\ rcCapture' = "running"
            /\ rcMonitor' = TRUE
            /\ rcPc' = "captured"
       ELSE /\ rcPc' = "idle"
            /\ UNCHANGED <<rcCapture, rcMonitor>>
    /\ UNCHANGED <<rcSocket, rcActive, rcLink, rcRecovering, rcResetPending, rcLast,
                   rcSessions, notRec>>

\* connect_async: if success: self.active_connection = True
RcMarkActive ==
    /\ rcPc = "captured"
    /\ rcActive' = TRUE
    /\ rcPc' = "idle"
    /\ UNCHANGED <<rcSocket, rcCapture, rcLink, rcMonitor, rcRecovering, rcResetPending,
                   rcLast, rcSessions, notRec>>

\* The consumer end goes away.
RcLinkBreak ==
    /\ rcSocket = "open"
    /\ rcLink
    /\ rcLink' = FALSE
    /\ UNCHANGED <<rcPc, rcSocket, rcActive, rcCapture, rcMonitor, rcRecovering,
                   rcResetPending, rcLast, rcSessions, notRec>>

\* event_callback in the capture thread: send_events fails, so
\* self._handle_connection_lost().
RcSendFails ==
    /\ rcCapture = "running"
    /\ ~rcLink
    /\ LossDetected("capture")
    /\ rcMonitor' = handle_connection_lost(RecState, "capture").monitor
    /\ UNCHANGED <<rcPc, rcLink, rcSessions, notRec>>

\* monitor, called by the _connection_monitor_timer: with a session set, a
\* failed probe calls _handle_connection_lost and returns, a good probe
\* starts the next timer; without a session the monitor ends.
RcProbe ==
    /\ rcMonitor
    /\ IF rcSocket = "open" /\ rcActive
       THEN IF ~rcLink
            THEN /\ LossDetected("monitor")
                 /\ rcMonitor' = FALSE
            ELSE UNCHANGED <<rcSocket, rcActive, rcCapture, rcRecovering, rcResetPending,
                             rcLast, rcMonitor>>
       ELSE /\ rcMonitor' = FALSE
            /\ UNCHANGED <<rcSocket, rcActive, rcCapture, rcRecovering, rcResetPending,
                           rcLast>>
    /\ UNCHANGED <<rcPc, rcLink, rcSessions, notRec>>

\* reset_recovery, 5 s after a handled loss: self._recovering = False
RcReset ==
    /\ rcResetPending
    /\ rcRecovering' = FALSE
    /\ rcResetPending' = FALSE
    /\ UNCHANGED <<rcPc, rcSocket, rcActive, rcCapture, rcLink, rcMonitor, rcLast,
                   rcSessions, notRec>>

\* _disconnect from the menu: with a session set, the monitor and the
\* captures are stopped, the socket is closed by disconnect_from_consumer
\* and the session is cleared.
RcDisconnect ==
    /\ rcPc = "idle"
    /\ rcActive
    /\ rcMonitor' = FALSE
    /\ rcCapture' = "none"
    /\ rcSocket' = IF rcSocket = "open" THEN "closed" ELSE rcSocket
    /\ rcActive' = FALSE
    /\ rcLast' = "none"
    /\ UNCHANGED <<rcPc, rcLink, rcRecovering, rcResetPending, rcSessions, notRec>>

RecNext ==
    \/ RcConnect
    \/ RcStartCapture
    \/ RcMarkActive
    \/ RcLinkBreak
    \/ RcSendFails
    \/ RcProbe
    \/ RcReset
    \/ RcDisconnect

SpecRecovery == RecInit /\ [][RecNext]_vars

\* C37: whenever the loss of the session has been detected, by a failed send
\* or by a failed probe, the captures are stopped and the session is
\* cleared, also for a session established and lost while the recovery flag
\* of an earlier loss is still set.
DetectedLossClearsSession ==
    rcLast # "none" => rcCapture = "none" /\ rcSocket # "open" /\ ~rcActive


\* The threads whose start_capture call returned True and whose capture has
\* not been stopped.
Capturing(t) == pc[t] = "streaming" /\ capState[t] = "running"

\* C2: every capture started by _perform_connection is restored before the
\* process exits and before a later capture of the same device path begins:
\* an exited process leaves the tablet in absolute mode with local input
\* enabled, and no two running captures hold the same path.
RestoreBeforeExitOrNextCapture ==
    /\ phase = "exited" => devMode = "Absolute" /\ devEnabled
    /\ \A t, u \in Threads :
        t # u /\ capState[t] = "running" /\ capState[u] = "running"
            => tDev[t] # tDev[u]

\* C3: of the start_capture calls that run concurrently for one device path at
\* most one returns success.
AtMostOneStartCaptureSucceeds ==
    \A t, u \in Threads :
        t # u /\ Capturing(t) /\ Capturing(u) => tDev[t] # tDev[u]

\* C4: an outbound session is registered, captures or streams only when the
\* answer received on its own connection was an auth_response with
\* accepted=true.
StreamingOnlyAfterOwnAccept ==
    \A t \in Threads :
        \/ pc[t] \in {"connected", "sc_check", "sc_start", "sc_register", "streaming"}
        \/ streamed[t]
        => resp[t] = "accept"

\* The steps the emergency cleanup has to perform, in their order.
RequiredCleanupSteps ==
    <<"cancel_timers", "stop_captures", "destroy_devices", "close_sockets",
      "unpublish_mdns", "stop_discovery">>

IsRequiredStep(s) == \E k \in 1..Len(RequiredCleanupSteps) : RequiredCleanupSteps[k] = s

\* C8: a completed cleanup, whichever of quit, signal or top-level exception
\* invoked it, has cancelled the timers, stopped the captures, destroyed the
\* virtual devices, closed the session sockets, unpublished mDNS and stopped
\* discovery, in this order.
CleanupPerformsAllStepsInOrder ==
    phase = "cleaned" =>
        /\ SelectSeq(lastCleanup.log, IsRequiredStep) = RequiredCleanupSteps
        /\ timers = "cancelled"
        /\ mdns = "unpublished"
        /\ discovery = "stopped"

\* C9: invoking _cleanup_resources again right after a completed invocation,
\* through either of _quit and _emergency_cleanup, issues no device-control
\* command, sends no disconnect message and leaves the state as the first
\* invocation left it.
CleanupIdempotent ==
    \A first, again \in BOOLEAN :
        LET h1 == cleanup_resources(HostState, first)
            h2 == cleanup_resources(h1, again)
        IN  /\ h2.cmds = 0
            /\ h2.disc = 0
            /\ Core(h2) = Core(h1)

\* C10: after a deliberate stop of a streaming outbound session exactly one
\* disconnect message has been attempted on its socket and the socket is closed.
DeliberateCloseSendsOneDisconnect ==
    \A t \in Threads :
        stopReq[t] => disconnects[t] = 1 /\ sock[t] = "closed"

\* C11: a thread whose own consumer answered accepted=false gets no further
\* than the parsing of that answer: it is never registered in
\* outgoing_connections, never starts a capture and never streams.
RejectedHandshakeRecordsNothing ==
    \A t \in Threads :
        resp[t] = "reject" =>
            /\ pc[t] = "unpack"
            /\ capState[t] = "none"
            /\ ~streamed[t]
            /\ \A c \in Consumers : outgoing_connections[c] # t

\* C12: when the user gave no answer within the 30 s, the auth_response sent
\* says accepted=false, the socket is closed, and neither that handshake nor
\* anything later adds the socket to a list of the inbound-socket registry.
NoAnswerRejects ==
    [][\A i \in Conns :
          userAnswer'[i] = "timeout" =>
              /\ authReply'[i] = "rejected"
              /\ inSock'[i] = "closed"
              /\ inPc'[i] = "closed"
              /\ \A n \in Names :
                    InSeq(incoming_sockets'[n], i) => InSeq(incoming_sockets[n], i)]_vars

NoAnswerRejectsWitness ==
    \E i \in Conns :
        /\ userAnswer[i] = "timeout"
        /\ authReply[i] = "rejected"
        /\ inSock[i] = "closed"
        /\ \E j \in Conns \ {i} : \E n \in Names : InSeq(incoming_sockets[n], j)

\* An inbound session of host name n that is still open.
OpenSessionOf(n) ==
    \E j \in Conns : inPc[j] # "closed" /\ handshake_done[j] /\ inHostName[j] = n

\* C15: when the reader of an accepted inbound session has read EOF, the
\* socket is closed and out of incoming_sockets, and the host is no longer
\* among incoming_connections unless another session of it is still open.
EofRemovesInboundPeer ==
    \A i \in Conns :
        inPc[i] = "closed" /\ peerClosed[i] /\ authReply[i] = "accepted" =>
            /\ inSock[i] = "closed"
            /\ ~InSeq(incoming_sockets[inHostName[i]], i)
            /\ ~OpenSessionOf(inHostName[i]) => ~InSeq(incoming_connections, inHostName[i])

\* C16: once the loss of an outbound session's connection has been detected,
\* the capture of the session is stopped (tablet back in its mode, local
\* input enabled) and its socket is closed.
DetectedLossTearsDown ==
    \A t \in Threads :
        lossSeen[t] => capState[t] # "running" /\ sock[t] = "closed"

\* An outbound session to consumer c that is live: the thread is past
\* start_capture, its socket is open and c has an entry in
\* outgoing_connections (the gate of its event_callback).
ActiveOutbound(t, c) ==
    /\ pc[t] = "streaming"
    /\ sock[t] = "open"
    /\ tCons[t] = c
    /\ outgoing_connections[c] # "none"

\* C20: at every moment at most one outbound session per consumer unique_id
\* is active, also when two connect requests to the same consumer run
\* concurrently.
AtMostOneOutboundPerConsumer ==
    \A c \in Consumers : \A t, u \in Threads :
        ActiveOutbound(t, c) /\ ActiveOutbound(u, c) => t = u

\* C33: the outcome of an outbound handshake depends only on what the
\* thread's own connection received: when connect_to_consumer has parsed the
\* answer, the session is accepted if and only if its own consumer sent
\* accepted=true.
HandshakeOutcomeIsOwn ==
    [][\A t \in Threads :
          pc[t] = "unpack" /\ pc'[t] # "unpack" /\ phase' # "exited" =>
              (pc'[t] = "connected" <=> resp[t] = "accept")]_vars

\* C38: when disconnect_from_consumer has returned for the socket of a
\* session, active_connections holds no entry for the peer of that socket
\* (unless another session to the same peer is still open), whether or not
\* the disconnect message could be sent.
DisconnectRemovesActiveConnection ==
    [][\A t \in Threads :
          disconnects'[t] > disconnects[t] =>
              \/ tCons[t] \notin active_connections'
              \/ \E u \in Threads \ {t} : tCons[u] = tCons[t] /\ sock'[u] = "open"]_vars

\* C39: a thread whose connect_to_consumer call has returned None, by
\* rejection, invalid response, EOF, connection error or the 60 s timeout,
\* holds no socket that was opened and not closed.
FailedConnectClosesSocket ==
    \A t \in Threads : pc[t] = "failed" => sock[t] = "closed"

\* C40: when the consumer of a thread has sent an auth_response with
\* accepted=true and the protocol buffer holds nothing but what the thread
\* read of it, the handshake succeeds, whether the answer arrived in one
\* read or split across two.
AcceptedResponseConnects ==
    [][\A t \in Threads :
          /\ pc[t] = "unpack"
          /\ pc'[t] # "unpack"
          /\ phase' # "exited"
          /\ resp[t] \in {"accept", "accept_split"}
          /\ protoBuffer = FirstRead(resp[t])
          => pc'[t] = "connected"]_vars
====
